---- MODULE Spec2Model ----
(***************************************************************************)
(* Progress-record storage of the EnPractice extension: the sharded record *)
(* store (ShardedRecordManager), the daily activity log (DayRecordManager, *)
(* full-event variant), the analysis aggregator (DayAnalysisManager) and   *)
(* the commands that write chapter shards, over the host key-value store   *)
(* (vscode globalState).  The earlier dedup variant of the daily activity  *)
(* log, which keeps one JSON file per day and mode, is modelled on its own *)
(* file store `files`.                                                     *)
(*                                                                         *)
(* The store is one function from key strings to values; get and update    *)
(* have value semantics.  Timestamps (new Date().toISOString()) are the    *)
(* integer clock `now`; the calendar date of a timestamp is                *)
(* now \div TicksPerDay.  correctRate is kept as an exact rational.        *)
(***************************************************************************)
EXTENDS Integers, Sequences, FiniteSets, TLC

\* ------------------------------------------------------------------ bounds
MaxSteps == 3        \* operations invoked and clock ticks in one behaviour
TicksPerDay == 2     \* clock ticks per calendar day
MaxDays == 2         \* calendar days after the first, in the backfill behaviours

\* ------------------------------------------------------- program constants
FIXED_WORDS_PER_CHAPTER == 10
TOTAL_WORDS_IN_CHAPTER == 10

\* ------------------------------------------------------------ input domains
Dicts == {"d1"}
Modes == {"normal", "dictation"}
Chapters == {1, 2}
Words == {"A", "B"}
DictNames == {"", "Dict"}
TotalWordsValues == {11, 25}
WordIndexes == {1}
Faults == {"read", "write"}

VARIABLES
    globalState,   \* the host key-value store: key string -> stored value
    files,         \* the files under data/userdata: path -> parsed JSON content
    now,           \* the clock read by new Date()
    fault,         \* "none", or the store failure the next operation meets
    nSteps,        \* operations invoked and clock ticks so far
    lastCall,      \* the last operation invoked, with its arguments
    lastRet,       \* what it returned to its caller
    writeLog,      \* the keys it called globalState.update on, in order
    tasks          \* the operations suspended at an await: name -> position and locals

vars == <<globalState, files, now, fault, nSteps, lastCall, lastRet, writeLog, tasks>>

\* ------------------------------------------------------------------- keys
getMainRecordKey(dictId, practiceMode) ==
    "enpractice.records." \o dictId \o "." \o practiceMode \o ".main"

getChapterRecordKey(dictId, chapterNumber, practiceMode) ==
    "enpractice.records." \o dictId \o "." \o practiceMode \o ".ch" \o ToString(chapterNumber)

getDayRecordKey(date, practiceMode) ==
    LET modeSuffix == IF practiceMode = "normal" THEN "" ELSE "_" \o practiceMode
    IN  "enpractice.dayRecords." \o ToString(date) \o modeSuffix

getTotalRecordKey == "enpractice.dayRecords.totalRecords"

\* new Date().toISOString().split('T')[0] at clock value t
DateOf(t) == t \div TicksPerDay

getCurrentDate == DateOf(now)

\* ------------------------------------------------------------------ store
\* A store in the middle of an operation: the key-value map and the log of
\* update calls the operation has made.
Begin(gs) == [kv |-> gs, log |-> <<>>]

\* globalState.get(key) is defined when the key holds a value
Has(S, key) == key \in DOMAIN S.kv

Get(S, key) == S.kv[key]

\* globalState.get throws
ReadFails == fault = "read"

\* globalState.update rejects
WriteFails == fault = "write"

\* await globalState.update(key, value); a rejected update stores nothing
Update(S, key, value) ==
    [kv  |-> IF WriteFails THEN S.kv ELSE (key :> value) @@ S.kv,
     log |-> Append(S.log, key)]

\* --------------------------------------------------------------- numbers
RECURSIVE Gcd(_, _)
Gcd(a, b) == IF b = 0 THEN a ELSE Gcd(b, a % b)

\* the exact value n/d, in lowest terms
Rational(n, d) ==
    LET g == Gcd(n, d) IN [num |-> n \div g, den |-> d \div g]

Zero == [num |-> 0, den |-> 1]

\* Math.ceil(a / b) for a >= 0, b > 0
Ceil(a, b) == (a + b - 1) \div b

\* Math.min(...) of a non-empty set of numbers
Min(S) == CHOOSE x \in S : \A y \in S : x <= y

\* ----------------------------------------------------------- main record
createDefaultDictRecord(dictId, dictName, totalWords, practiceMode) ==
    [dictId           |-> dictId,
     dictName         |-> dictName,
     totalWords       |-> totalWords,
     totalChapters    |-> Ceil(totalWords, FIXED_WORDS_PER_CHAPTER),
     currentChapter   |-> 1,
     currentWordIndex |-> 0,
     practiceMode     |-> practiceMode,
     chapterLoop      |-> TRUE,
     lastPracticeTime |-> now,
     createdTime      |-> now]

\* mutant: the record is stamped with the time of the save
saveMainRecord_Stamp(S, record) ==
    Update(S, getMainRecordKey(record.dictId, record.practiceMode),
           [record EXCEPT !.lastPracticeTime = now])

\* saveMainRecord catches a rejected update
saveMainRecord(S, record) ==
    Update(S, getMainRecordKey(record.dictId, record.practiceMode), record)

\* mutant: totalWords is corrected and totalChapters is left as stored
HealTotals_StaleChapters(record, totalWords) ==
    [record EXCEPT !.totalWords = totalWords]

\* the corrected record of the consistency check
HealTotals(record, totalWords) ==
    [record EXCEPT !.totalWords = totalWords,
                   !.totalChapters = Ceil(totalWords, FIXED_WORDS_PER_CHAPTER)]

\* mutant: an existing record is stamped and saved on every load
loadMainRecord_AlwaysSave(S, dictId, dictName, totalWords, practiceMode) ==
    LET recordKey == getMainRecordKey(dictId, practiceMode)
        newRecord == createDefaultDictRecord(dictId, dictName, totalWords, practiceMode)
    IN  IF ~ReadFails /\ Has(S, recordKey)
        THEN LET healed == [HealTotals(Get(S, recordKey), totalWords)
                               EXCEPT !.lastPracticeTime = now]
             IN  [ret |-> healed, S |-> saveMainRecord(S, healed)]
        ELSE [ret |-> newRecord, S |-> saveMainRecord(S, newRecord)]

\* loadMainRecord: the returned record and the store it leaves
loadMainRecord(S, dictId, dictName, totalWords, practiceMode) ==
    LET recordKey == getMainRecordKey(dictId, practiceMode)
        newRecord == createDefaultDictRecord(dictId, dictName, totalWords, practiceMode)
    IN  IF ReadFails
        THEN [ret |-> newRecord, S |-> saveMainRecord(S, newRecord)]
        ELSE IF Has(S, recordKey)
        THEN LET record == Get(S, recordKey) IN
             IF record.totalWords # totalWords
             THEN LET healed == HealTotals(record, totalWords)
                  IN  [ret |-> healed, S |-> saveMainRecord(S, healed)]
             ELSE [ret |-> record, S |-> S]
        ELSE [ret |-> newRecord, S |-> saveMainRecord(S, newRecord)]

\* -------------------------------------------------------- chapter shard
EmptyWordRecords == [w \in {} |-> Zero]

\* the default chapter record of loadChapterRecord
DefaultChapterRecord(chapterNumber) ==
    [chapterNumber          |-> chapterNumber,
     totalWordsInChapter    |-> TOTAL_WORDS_IN_CHAPTER,
     completedWordsCount    |-> 0,
     chapterCompletionCount |-> 0,
     lastPracticeTime       |-> now,
     wordRecords            |-> EmptyWordRecords]

\* mutant: the default record of an absent shard is saved by the load
loadChapterRecord_Persist(S, dictId, chapterNumber, practiceMode) ==
    LET recordKey == getChapterRecordKey(dictId, chapterNumber, practiceMode)
    IN  IF ~ReadFails /\ Has(S, recordKey) THEN [ret |-> Get(S, recordKey), S |-> S]
        ELSE [ret |-> DefaultChapterRecord(chapterNumber),
              S   |-> Update(S, recordKey, DefaultChapterRecord(chapterNumber))]

\* loadChapterRecord: the stored shard, or the default, and the store it leaves
loadChapterRecord(S, dictId, chapterNumber, practiceMode) ==
    LET recordKey == getChapterRecordKey(dictId, chapterNumber, practiceMode)
    IN  IF ReadFails THEN [ret |-> DefaultChapterRecord(chapterNumber), S |-> S]
        ELSE IF Has(S, recordKey) THEN [ret |-> Get(S, recordKey), S |-> S]
        ELSE [ret |-> DefaultChapterRecord(chapterNumber), S |-> S]

\* saveChapterRecord catches a rejected update
saveChapterRecord(S, dictId, chapterRecord, practiceMode) ==
    Update(S, getChapterRecordKey(dictId, chapterRecord.chapterNumber, practiceMode),
           chapterRecord)

\* the word record created on the first practice of a word
NewWordRecord(word) ==
    [word             |-> word,
     practiceCount    |-> 0,
     correctCount     |-> 0,
     errorCount       |-> 0,
     lastPracticeTime |-> now,
     correctRate      |-> Zero]

\* practiceCount > 0 ? (correctCount / practiceCount) * 100 : 0
CorrectRate(correctCount, practiceCount) ==
    IF practiceCount > 0 THEN Rational(correctCount * 100, practiceCount) ELSE Zero

\* mutant: a wrong answer is counted as a practice but not as an error
PractiseWord_NoError(wr, isCorrect) ==
    LET practiceCount == wr.practiceCount + 1
        correctCount  == IF isCorrect THEN wr.correctCount + 1 ELSE wr.correctCount
    IN  [wr EXCEPT !.practiceCount    = practiceCount,
                   !.correctCount     = correctCount,
                   !.lastPracticeTime = now,
                   !.correctRate      = CorrectRate(correctCount, practiceCount)]

\* mutant: the rate is computed from the counters before they are incremented
PractiseWord_StaleRate(wr, isCorrect) ==
    [wr EXCEPT !.practiceCount    = wr.practiceCount + 1,
               !.correctCount     = IF isCorrect THEN wr.correctCount + 1 ELSE wr.correctCount,
               !.errorCount       = IF isCorrect THEN wr.errorCount ELSE wr.errorCount + 1,
               !.lastPracticeTime = now,
               !.correctRate      = CorrectRate(wr.correctCount, wr.practiceCount)]

\* the update of one word record by one practice
PractiseWord(wr, isCorrect) ==
    LET practiceCount == wr.practiceCount + 1
        correctCount  == IF isCorrect THEN wr.correctCount + 1 ELSE wr.correctCount
        errorCount    == IF isCorrect THEN wr.errorCount ELSE wr.errorCount + 1
    IN  [wr EXCEPT !.practiceCount    = practiceCount,
                   !.correctCount     = correctCount,
                   !.errorCount       = errorCount,
                   !.lastPracticeTime = now,
                   !.correctRate      = CorrectRate(correctCount, practiceCount)]

\* Object.values(wordRecords).filter(wr => wr.practiceCount > 0)
PractisedWords(wordRecords) ==
    {w \in DOMAIN wordRecords : wordRecords[w].practiceCount > 0}

RECURSIVE SumPractice(_, _)
SumPractice(wordRecords, ws) ==
    IF ws = {} THEN 0
    ELSE LET w == CHOOSE x \in ws : TRUE
         IN  wordRecords[w].practiceCount + SumPractice(wordRecords, ws \ {w})

\* mutant: practices are counted instead of practised words
CompletedWordsCount_Practices(wordRecords) == SumPractice(wordRecords, DOMAIN wordRecords)

CompletedWordsCount(wordRecords) == Cardinality(PractisedWords(wordRecords))

\* mutant: the largest correct count is taken instead of the smallest
ChapterCompletionCount_Max(wordRecords) ==
    LET correctCounts == {wordRecords[w].correctCount : w \in PractisedWords(wordRecords)}
    IN  IF correctCounts # {}
        THEN CHOOSE x \in correctCounts : \A y \in correctCounts : y <= x
        ELSE 0

\* correctCounts.length > 0 ? Math.min(...correctCounts) : 0
ChapterCompletionCount(wordRecords) ==
    LET correctCounts == {wordRecords[w].correctCount : w \in PractisedWords(wordRecords)}
    IN  IF correctCounts # {} THEN Min(correctCounts) ELSE 0

\* ----------------------------------------------------------------- values
\* the result of a Promise<void>
Void == [void |-> TRUE]

\* the value null
Null == [null |-> TRUE]

\* ------------------------------------------------------ daily activity log
\* the word list of a dictionary (loadWordBookData)
WordBook(dictId) == Words

\* getWordDetails
getWordDetails(dictId, chapterNumber, word) ==
    IF word \in WordBook(dictId)
    THEN [translation |-> "trans " \o word, usphone |-> "us " \o word, ukphone |-> "uk " \o word]
    ELSE [translation |-> "unknown", usphone |-> "", ukphone |-> ""]

EmptyDayRecord(date) == [date |-> date, words |-> <<>>]

\* mutant: the new event is put in front of the earlier ones
DayRecordWordPractice_Prepend(S, dictId, dictName, chapterNumber, word, isCorrect, practiceMode) ==
    LET currentDate == getCurrentDate
        recordKey   == getDayRecordKey(currentDate, practiceMode)
        dayRecord   == IF Has(S, recordKey) THEN Get(S, recordKey)
                       ELSE EmptyDayRecord(currentDate)
        wordDetails == getWordDetails(dictId, chapterNumber, word)
        wordRecord  == [word          |-> word,
                        translation   |-> wordDetails.translation,
                        usphone       |-> wordDetails.usphone,
                        ukphone       |-> wordDetails.ukphone,
                        dictId        |-> dictId,
                        dictName      |-> dictName,
                        chapterNumber |-> chapterNumber,
                        practiceTime  |-> now,
                        isCorrect     |-> isCorrect]
    IN  Update(S, recordKey, [dayRecord EXCEPT !.words = <<wordRecord>> \o @])

\* DayRecordManager.recordWordPractice (full-event log)
DayRecordWordPractice(S, dictId, dictName, chapterNumber, word, isCorrect, practiceMode) ==
    LET currentDate == getCurrentDate
        recordKey   == getDayRecordKey(currentDate, practiceMode)
        dayRecord   == IF Has(S, recordKey) THEN Get(S, recordKey)
                       ELSE EmptyDayRecord(currentDate)
        wordDetails == getWordDetails(dictId, chapterNumber, word)
        wordRecord  == [word          |-> word,
                        translation   |-> wordDetails.translation,
                        usphone       |-> wordDetails.usphone,
                        ukphone       |-> wordDetails.ukphone,
                        dictId        |-> dictId,
                        dictName      |-> dictName,
                        chapterNumber |-> chapterNumber,
                        practiceTime  |-> now,
                        isCorrect     |-> isCorrect]
    IN  IF ReadFails THEN S
        ELSE Update(S, recordKey, [dayRecord EXCEPT !.words = Append(@, wordRecord)])

\* mutant: the date is pushed without looking for it in the list
updateTotalRecords_AlwaysPush(S, date) ==
    LET totalRecordKey == getTotalRecordKey
        totalRecords   == IF ~ReadFails /\ Has(S, totalRecordKey)
                          THEN Get(S, totalRecordKey) ELSE <<>>
    IN  Update(S, totalRecordKey,
               Append(totalRecords, [date |-> date, analysisGenerated |-> FALSE]))

\* DayRecordManager.updateTotalRecords; a rejected update stores nothing
updateTotalRecords(S, date) ==
    LET totalRecordKey == getTotalRecordKey
        totalRecords   == IF ~ReadFails /\ Has(S, totalRecordKey)
                          THEN Get(S, totalRecordKey) ELSE <<>>
    IN  IF \E i \in 1..Len(totalRecords) : totalRecords[i].date = date
        THEN S
        ELSE Update(S, totalRecordKey,
                    Append(totalRecords, [date |-> date, analysisGenerated |-> FALSE]))

\* DayRecordManager.createDayRecordFile
createDayRecordFile(S, practiceMode) ==
    LET currentDate == getCurrentDate
        recordKey   == getDayRecordKey(currentDate, practiceMode)
    IN  IF ReadFails THEN S
        ELSE IF Has(S, recordKey) THEN S
        ELSE LET S1 == Update(S, recordKey, EmptyDayRecord(currentDate))
             IN  IF WriteFails THEN S1 ELSE updateTotalRecords(S1, currentDate)

\* DayRecordManager.getTotalRecords
getTotalRecords(S) ==
    IF ~ReadFails /\ Has(S, getTotalRecordKey) THEN Get(S, getTotalRecordKey) ELSE <<>>

\* mutant: the flag is set in a copy that is never saved
setAnalysisGenerated_NoSave(S, date, generated) == S

\* DayRecordManager.setAnalysisGenerated
setAnalysisGenerated(S, date, generated) ==
    LET totalRecordKey == getTotalRecordKey
        totalRecords   == IF Has(S, totalRecordKey) THEN Get(S, totalRecordKey) ELSE <<>>
    IN  IF ReadFails THEN S
        ELSE IF \E i \in 1..Len(totalRecords) : totalRecords[i].date = date
        THEN Update(S, totalRecordKey,
                    [i \in 1..Len(totalRecords) |->
                        IF totalRecords[i].date = date
                           /\ \A j \in 1..(i - 1) : totalRecords[j].date # date
                        THEN [totalRecords[i] EXCEPT !.analysisGenerated = generated]
                        ELSE totalRecords[i]])
        ELSE S

\* an exception that leaves the operation: the promise given to the caller
\* rejects
Thrown == [thrown |-> TRUE]

\* what updateTotalRecords gives its caller: the read of the list is inside
\* a try block, the update that stores the longer list is awaited outside it
updateTotalRecordsRet(S, date) ==
    LET totalRecords == getTotalRecords(S)
    IN  IF WriteFails /\ ~\E i \in 1..Len(totalRecords) : totalRecords[i].date = date
        THEN Thrown
        ELSE Void

\* what setAnalysisGenerated gives its caller: the update that stores the
\* marked list is awaited outside the try block
setAnalysisGeneratedRet(S, date, generated) ==
    LET totalRecords == getTotalRecords(S)
    IN  IF WriteFails /\ \E i \in 1..Len(totalRecords) : totalRecords[i].date = date
        THEN Thrown
        ELSE Void

\* DayRecordManager.getDayRecord: record || null, null when the read throws
getDayRecord(S, date, practiceMode) ==
    LET recordKey == getDayRecordKey(date, practiceMode)
    IN  IF ~ReadFails /\ Has(S, recordKey) THEN Get(S, recordKey) ELSE Null

\* ------------------------------------------------------ analysis aggregator
getAnalysisKey(date) == "enpractice.dayRecordsAnalyze." \o ToString(date) \o "_analysis"

\* DayAnalysisManager.readDayRecord: the stored record, or null
readDayRecord(S, date, practiceMode) ==
    LET recordKey == getDayRecordKey(date, practiceMode)
    IN  IF ~ReadFails /\ Has(S, recordKey) THEN Get(S, recordKey) ELSE Null

\* `for (const wordRecord of record.words)` throws when the record has no
\* words array
WordsIterable(record) == "words" \in DOMAIN record

RECURSIVE SumFn(_, _)
\* reduce((sum, x) => sum + f[x], 0) over the keys in `keys`
SumFn(f, keys) ==
    IF keys = {} THEN 0
    ELSE LET x == CHOOSE k \in keys : TRUE
         IN  f[x] + SumFn(f, keys \ {x})

\* mutant: the statistics are the day's own, taken from the event
WordStatistics_OfTheDay(event, chapterRecord) ==
    [word             |-> event.word,
     practiceCount    |-> 1,
     correctCount     |-> IF event.isCorrect THEN 1 ELSE 0,
     errorCount       |-> IF event.isCorrect THEN 0 ELSE 1,
     correctRate      |-> CorrectRate(IF event.isCorrect THEN 1 ELSE 0, 1),
     lastPracticeTime |-> event.practiceTime]

\* the statistics of one event's word, from the chapter shard when it has them
WordStatistics(event, chapterRecord) ==
    IF event.word \in DOMAIN chapterRecord.wordRecords
    THEN LET wordRecord == chapterRecord.wordRecords[event.word]
         IN  [word             |-> event.word,
              practiceCount    |-> wordRecord.practiceCount,
              correctCount     |-> wordRecord.correctCount,
              errorCount       |-> wordRecord.errorCount,
              correctRate      |-> wordRecord.correctRate,
              lastPracticeTime |-> wordRecord.lastPracticeTime]
    ELSE [word             |-> event.word,
          practiceCount    |-> 0,
          correctCount     |-> 0,
          errorCount       |-> 0,
          correctRate      |-> Zero,
          lastPracticeTime |-> event.practiceTime]

\* DayAnalysisManager.processRecordData, of a record with a words array: the
\* events grouped by dictionary and chapter, each with the statistics that
\* loadChapterRecord gives for its word
processRecordData(S, record, practiceMode) ==
    LET words      == record.words
        dictIds    == {words[i].dictId : i \in 1..Len(words)}
        First(d)   == CHOOSE i \in 1..Len(words) :
                          /\ words[i].dictId = d
                          /\ \A j \in 1..(i - 1) : words[j].dictId # d
        ChapNums(d) == {words[i].chapterNumber :
                            i \in {j \in 1..Len(words) : words[j].dictId = d}}
        InChapter(d, c) ==
            LET Test(e) == e.dictId = d /\ e.chapterNumber = c
            IN  SelectSeq(words, Test)
        Chapter(d, c) ==
            LET events        == InChapter(d, c)
                chapterRecord == loadChapterRecord(S, d, c, practiceMode).ret
            IN  [chapterNumber |-> c,
                 wordCount     |-> Len(events),
                 words         |-> [i \in 1..Len(events) |->
                                       WordStatistics(events[i], chapterRecord)]]
    IN  [dicts |-> [d \in dictIds |->
            [dictId   |-> d,
             dictName |-> words[First(d)].dictName,
             chapters |-> [k \in {ToString(c) : c \in ChapNums(d)} |->
                              Chapter(d, CHOOSE c \in ChapNums(d) : ToString(c) = k)]]]]

\* DayAnalysisManager.getDictDetails: the word count of a known dictionary
getDictDetails(dictId) ==
    IF dictId \in Dicts
    THEN [name |-> "Dict", totalWords |-> Cardinality(WordBook(dictId))]
    ELSE Null

\* mutant: the words of a mode are counted once per chapter
ModeCounts_PerChapter(processedMode, dictId) ==
    IF processedMode # Null /\ dictId \in DOMAIN processedMode.dicts
    THEN LET chapters == processedMode.dicts[dictId].chapters
         IN  [chapters |-> Cardinality(DOMAIN chapters),
              words    |-> Cardinality(DOMAIN chapters)]
    ELSE [chapters |-> 0, words |-> 0]

\* the chapters and words a processed mode holds for a dictionary
ModeCounts(processedMode, dictId) ==
    IF processedMode # Null /\ dictId \in DOMAIN processedMode.dicts
    THEN LET chapters == processedMode.dicts[dictId].chapters
         IN  [chapters |-> Cardinality(DOMAIN chapters),
              words    |-> SumFn([k \in DOMAIN chapters |-> chapters[k].wordCount],
                                 DOMAIN chapters)]
    ELSE [chapters |-> 0, words |-> 0]

\* the report of generateAnalysis; summary.dicts is kept by dictionary id
AnalysisData(date, normalMode, dictationMode) ==
    LET allDicts == (IF normalMode # Null THEN DOMAIN normalMode.dicts ELSE {})
                    \cup (IF dictationMode # Null THEN DOMAIN dictationMode.dicts ELSE {})
        DictName(d) == IF normalMode # Null /\ d \in DOMAIN normalMode.dicts
                       THEN normalMode.dicts[d].dictName
                       ELSE dictationMode.dicts[d].dictName
        dictSummary == [d \in allDicts |->
            [dictId           |-> d,
             dictName         |-> DictName(d),
             totalWordsInDict |-> IF getDictDetails(d) # Null
                                  THEN getDictDetails(d).totalWords ELSE 0,
             normalMode       |-> ModeCounts(normalMode, d),
             dictationMode    |-> ModeCounts(dictationMode, d)]]
    IN  [date          |-> date,
         generatedAt   |-> now,
         normalMode    |-> normalMode,
         dictationMode |-> dictationMode,
         summary       |->
            [totalDicts    |-> Cardinality(allDicts),
             totalChapters |-> SumFn([d \in allDicts |->
                                        dictSummary[d].normalMode.chapters
                                        + dictSummary[d].dictationMode.chapters], allDicts),
             totalWords    |-> SumFn([d \in allDicts |->
                                        dictSummary[d].normalMode.words
                                        + dictSummary[d].dictationMode.words], allDicts),
             dicts         |-> dictSummary]]

\* mutant: the day record that was reported is cleared
generateAnalysis_ClearDay(S, date) ==
    LET normalRecord    == readDayRecord(S, date, "normal")
        dictationRecord == readDayRecord(S, date, "dictation")
        Processed(record, mode) ==
            IF record # Null THEN processRecordData(S, record, mode) ELSE Null
        analysisData    == AnalysisData(date, Processed(normalRecord, "normal"),
                                        Processed(dictationRecord, "dictation"))
        S1              == Update(S, getAnalysisKey(date), analysisData)
        S2              == IF normalRecord # Null
                           THEN Update(S1, getDayRecordKey(date, "normal"),
                                       EmptyDayRecord(date))
                           ELSE S1
    IN  setAnalysisGenerated(S2, date, TRUE)

\* DayAnalysisManager.generateAnalysis; an exception anywhere (a day record
\* without a words array, a rejected update) ends it in its catch block
generateAnalysis(S, date) ==
    LET normalRecord    == readDayRecord(S, date, "normal")
        dictationRecord == readDayRecord(S, date, "dictation")
        Processed(record, mode) ==
            IF record # Null THEN processRecordData(S, record, mode) ELSE Null
    IN  IF \/ normalRecord # Null /\ ~WordsIterable(normalRecord)
           \/ dictationRecord # Null /\ ~WordsIterable(dictationRecord)
        THEN S
        ELSE LET analysisData == AnalysisData(date, Processed(normalRecord, "normal"),
                                              Processed(dictationRecord, "dictation"))
                 S1           == Update(S, getAnalysisKey(date), analysisData)
             IN  IF WriteFails THEN S1 ELSE setAnalysisGenerated(S1, date, TRUE)

RECURSIVE SortByDateDesc(_)
\* [...totalRecords].sort((a, b) => b.date.localeCompare(a.date)), a stable
\* sort: each record goes after every entry that is not older than it; dates
\* of one format compare as the days they name
SortByDateDesc(totalRecords) ==
    IF totalRecords = <<>> THEN <<>>
    ELSE LET sortedRest == SortByDateDesc(SubSeq(totalRecords, 1, Len(totalRecords) - 1))
             record     == totalRecords[Len(totalRecords)]
             before     == {i \in 1..Len(sortedRest) : sortedRest[i].date >= record.date}
             n          == Cardinality(before)
         IN  SubSeq(sortedRest, 1, n) \o <<record>> \o SubSeq(sortedRest, n + 1, Len(sortedRest))

\* mutant: the list is scanned in its stored order
checkAndGenerateMissingAnalysis_Unsorted(S, totalRecords) ==
    LET today   == getCurrentDate
        Due(i)  == totalRecords[i].date < today /\ ~totalRecords[i].analysisGenerated
        due     == {i \in 1..Len(totalRecords) : Due(i)}
    IN  IF due = {} THEN S
        ELSE generateAnalysis(S, totalRecords[Min(due)].date)

\* mutant: every unprocessed past date is not looked for, only yesterday
checkAndGenerateMissingAnalysis_Yesterday(S, totalRecords) ==
    LET today == getCurrentDate
    IN  IF \E i \in 1..Len(totalRecords) :
               totalRecords[i].date = today - 1 /\ ~totalRecords[i].analysisGenerated
        THEN generateAnalysis(S, today - 1)
        ELSE S

\* DayAnalysisManager.checkAndGenerateMissingAnalysis: the first entry of the
\* sorted list that is before today and not generated is processed, then break
checkAndGenerateMissingAnalysis(S, totalRecords) ==
    LET today         == getCurrentDate
        sortedRecords == SortByDateDesc(totalRecords)
        Due(i)        == sortedRecords[i].date < today /\ ~sortedRecords[i].analysisGenerated
        due           == {i \in 1..Len(sortedRecords) : Due(i)}
    IN  IF due = {} THEN S
        ELSE generateAnalysis(S, sortedRecords[Min(due)].date)

\* ------------------------------------- daily activity log, dedup variant
\* The earlier DayRecordManager keeps one JSON file per day and mode; a file
\* is read with readFile + JSON.parse and written with JSON.stringify +
\* writeFile, which give back the same plain objects.
getDayRecordPath(date, practiceMode) ==
    LET modeSuffix == IF practiceMode = "normal" THEN "" ELSE "_" \o practiceMode
    IN  "data/userdata/dayRecords/" \o ToString(date) \o modeSuffix \o ".json"

getTotalRecordPath == "data/userdata/dayRecords/totalRecords.json"

EmptyDicts == [d \in {} |-> 0]

EmptyChapters == [c \in {} |-> 0]

Dedup_EmptyDayRecord(date) == [date |-> date, dicts |-> EmptyDicts]

\* updateTotalRecords of the dedup variant
Dedup_updateTotalRecords(S, date) ==
    LET totalRecordPath == getTotalRecordPath
        totalRecords    == IF Has(S, totalRecordPath) THEN Get(S, totalRecordPath) ELSE <<>>
    IN  IF \E i \in 1..Len(totalRecords) : totalRecords[i].date = date
        THEN S
        ELSE Update(S, totalRecordPath,
                    Append(totalRecords, [date |-> date, analysisGenerated |-> FALSE]))

\* createDayRecordFile of the dedup variant: stat, then write when absent
Dedup_createDayRecordFile(S, practiceMode) ==
    LET currentDate == getCurrentDate
        recordPath  == getDayRecordPath(currentDate, practiceMode)
    IN  IF Has(S, recordPath) THEN S
        ELSE Dedup_updateTotalRecords(
                 Update(S, recordPath, Dedup_EmptyDayRecord(currentDate)), currentDate)

\* the day record with the dictionary and chapter entries ensured
EnsureChapter(dayRecord, dictId, dictName, chapterNumber) ==
    LET chapterKey == ToString(chapterNumber)
        dicts1     == IF dictId \in DOMAIN dayRecord.dicts THEN dayRecord.dicts
                      ELSE (dictId :> [dictId |-> dictId, dictName |-> dictName,
                                       chapters |-> EmptyChapters]) @@ dayRecord.dicts
        chapters1  == IF chapterKey \in DOMAIN dicts1[dictId].chapters
                      THEN dicts1[dictId].chapters
                      ELSE (chapterKey :> [chapterNumber |-> chapterNumber, words |-> <<>>])
                           @@ dicts1[dictId].chapters
    IN  [dayRecord EXCEPT !.dicts = [dicts1 EXCEPT ![dictId].chapters = chapters1]]

\* chapterRecord.words.includes(word)
Includes(words, word) == \E i \in 1..Len(words) : words[i] = word

\* mutant: the word is pushed and the file written on every call
Dedup_recordWordPractice_AlwaysPush(S, dictId, dictName, chapterNumber, word, practiceMode) ==
    LET currentDate == getCurrentDate
        recordPath  == getDayRecordPath(currentDate, practiceMode)
        dayRecord   == EnsureChapter(IF Has(S, recordPath) THEN Get(S, recordPath)
                                     ELSE Dedup_EmptyDayRecord(currentDate),
                                     dictId, dictName, chapterNumber)
        chapterKey  == ToString(chapterNumber)
    IN  Update(S, recordPath,
               [dayRecord EXCEPT !.dicts[dictId].chapters[chapterKey].words =
                                     Append(@, word)])

\* recordWordPractice of the dedup variant
Dedup_recordWordPractice(S, dictId, dictName, chapterNumber, word, practiceMode) ==
    LET currentDate == getCurrentDate
        recordPath  == getDayRecordPath(currentDate, practiceMode)
        dayRecord   == EnsureChapter(IF Has(S, recordPath) THEN Get(S, recordPath)
                                     ELSE Dedup_EmptyDayRecord(currentDate),
                                     dictId, dictName, chapterNumber)
        chapterKey  == ToString(chapterNumber)
    IN  IF ~Includes(dayRecord.dicts[dictId].chapters[chapterKey].words, word)
        THEN Update(S, recordPath,
                    [dayRecord EXCEPT !.dicts[dictId].chapters[chapterKey].words =
                                          Append(@, word)])
        ELSE S

\* ------------------------------------------------- record store operations
\* mutant: the event is forwarded to the day log whatever the dictName
recordWordPractice_AlwaysForward(S, dictId, chapterNumber, word, isCorrect, practiceMode, dictName) ==
    LET loaded        == loadChapterRecord(S, dictId, chapterNumber, practiceMode)
        chapterRecord == loaded.ret
        wr0           == IF word \in DOMAIN chapterRecord.wordRecords
                         THEN chapterRecord.wordRecords[word]
                         ELSE NewWordRecord(word)
        wordRecords   == (word :> PractiseWord(wr0, isCorrect)) @@ chapterRecord.wordRecords
        updated       == [chapterRecord EXCEPT
                            !.totalWordsInChapter    = TOTAL_WORDS_IN_CHAPTER,
                            !.completedWordsCount    = CompletedWordsCount(wordRecords),
                            !.chapterCompletionCount = ChapterCompletionCount(wordRecords),
                            !.lastPracticeTime       = now,
                            !.wordRecords            = wordRecords]
    IN  DayRecordWordPractice(saveChapterRecord(loaded.S, dictId, updated, practiceMode),
                              dictId, dictName, chapterNumber, word, isCorrect, practiceMode)

\* ShardedRecordManager.recordWordPractice
recordWordPractice(S, dictId, chapterNumber, word, isCorrect, practiceMode, dictName) ==
    LET loaded        == loadChapterRecord(S, dictId, chapterNumber, practiceMode)
        chapterRecord == loaded.ret
        isEmptyRecord == DOMAIN chapterRecord.wordRecords = {}
        wr0           == IF word \in DOMAIN chapterRecord.wordRecords
                         THEN chapterRecord.wordRecords[word]
                         ELSE NewWordRecord(word)
        wordRecords   == (word :> PractiseWord(wr0, isCorrect)) @@ chapterRecord.wordRecords
        updated       == [chapterRecord EXCEPT
                            !.totalWordsInChapter    = TOTAL_WORDS_IN_CHAPTER,
                            !.completedWordsCount    = CompletedWordsCount(wordRecords),
                            !.chapterCompletionCount = ChapterCompletionCount(wordRecords),
                            !.lastPracticeTime       = now,
                            !.wordRecords            = wordRecords]
        S1            == IF ~isEmptyRecord \/ DOMAIN wordRecords # {}
                         THEN saveChapterRecord(loaded.S, dictId, updated, practiceMode)
                         ELSE loaded.S
    IN  IF dictName # ""
        THEN DayRecordWordPractice(S1, dictId, dictName, chapterNumber, word, isCorrect,
                                   practiceMode)
        ELSE S1

\* mutant: the record is saved whether or not it holds word records
recordChapterCompletion_AlwaysSave(S, dictId, chapterNumber, practiceMode) ==
    LET loaded        == loadChapterRecord(S, dictId, chapterNumber, practiceMode)
        chapterRecord == loaded.ret
    IN  saveChapterRecord(loaded.S, dictId,
            [chapterRecord EXCEPT
               !.chapterCompletionCount = ChapterCompletionCount(chapterRecord.wordRecords),
               !.lastPracticeTime       = now],
            practiceMode)

\* ShardedRecordManager.recordChapterCompletion
recordChapterCompletion(S, dictId, chapterNumber, practiceMode) ==
    LET loaded        == loadChapterRecord(S, dictId, chapterNumber, practiceMode)
        chapterRecord == loaded.ret
    IN  IF DOMAIN chapterRecord.wordRecords # {}
        THEN saveChapterRecord(loaded.S, dictId,
                 [chapterRecord EXCEPT
                    !.chapterCompletionCount = ChapterCompletionCount(chapterRecord.wordRecords),
                    !.lastPracticeTime       = now],
                 practiceMode)
        ELSE loaded.S

\* ShardedRecordManager.updateCurrentPosition
updateCurrentPosition(S, dictId, chapterNumber, wordIndex, practiceMode) ==
    LET loaded == loadMainRecord(S, dictId, "", 0, practiceMode)
    IN  saveMainRecord(loaded.S,
            [loaded.ret EXCEPT !.currentChapter   = chapterNumber,
                               !.currentWordIndex = wordIndex,
                               !.lastPracticeTime = now])

\* mutant: the loop setting is shared by the two modes
updateChapterLoop_BothModes(S, dictId, chapterLoop, practiceMode) ==
    LET first  == loadMainRecord(S, dictId, "", 0, "normal")
        S1     == saveMainRecord(first.S,
                      [first.ret EXCEPT !.chapterLoop      = chapterLoop,
                                        !.lastPracticeTime = now])
        second == loadMainRecord(S1, dictId, "", 0, "dictation")
    IN  saveMainRecord(second.S,
            [second.ret EXCEPT !.chapterLoop      = chapterLoop,
                               !.lastPracticeTime = now])

\* ShardedRecordManager.updateChapterLoop
updateChapterLoop(S, dictId, chapterLoop, practiceMode) ==
    LET loaded == loadMainRecord(S, dictId, "", 0, practiceMode)
    IN  saveMainRecord(loaded.S,
            [loaded.ret EXCEPT !.chapterLoop      = chapterLoop,
                               !.lastPracticeTime = now])

\* the enpractice.fixChapterCompletion command, for the current dictionary
fixChapterCompletion(S, currentDictId) ==
    LET loaded        == loadChapterRecord(S, currentDictId, 1, "normal")
        chapterRecord == loaded.ret
    IN  saveChapterRecord(loaded.S, currentDictId,
            [chapterRecord EXCEPT
               !.chapterCompletionCount = ChapterCompletionCount(chapterRecord.wordRecords),
               !.lastPracticeTime       = now],
            "normal")

\* ---------------------------------------------------------------- actions

Init ==
    /\ globalState = [k \in {} |-> Void]
    /\ files = [k \in {} |-> Void]
    /\ now = 0
    /\ fault = "none"
    /\ nSteps = 0
    /\ lastCall = [op |-> "init"]
    /\ lastRet = Void
    /\ writeLog = <<>>
    /\ tasks = [t \in {} |-> Void]

\* an operation ran to its end: its store, its return value, its log
Finish(call, ret, S) ==
    /\ globalState' = S.kv
    /\ writeLog' = S.log
    /\ lastCall' = call
    /\ lastRet' = ret
    /\ nSteps' = nSteps + 1
    /\ fault' = "none"
    /\ UNCHANGED <<now, files, tasks>>

LoadMainRecord(dictId, dictName, totalWords, practiceMode) ==
    /\ nSteps < MaxSteps
    /\ LET r == loadMainRecord(Begin(globalState), dictId, dictName, totalWords,
                               practiceMode)
       IN  Finish([op |-> "loadMainRecord", dictId |-> dictId, dictName |-> dictName,
                   totalWords |-> totalWords, practiceMode |-> practiceMode],
                  r.ret, r.S)

LoadChapterRecord(dictId, chapterNumber, practiceMode) ==
    /\ nSteps < MaxSteps
    /\ LET r == loadChapterRecord(Begin(globalState), dictId, chapterNumber, practiceMode)
       IN  Finish([op |-> "loadChapterRecord", dictId |-> dictId,
                   chapterNumber |-> chapterNumber, practiceMode |-> practiceMode],
                  r.ret, r.S)

UpdateCurrentPosition(dictId, chapterNumber, wordIndex, practiceMode) ==
    /\ nSteps < MaxSteps
    /\ Finish([op |-> "updateCurrentPosition", dictId |-> dictId,
               chapterNumber |-> chapterNumber, wordIndex |-> wordIndex,
               practiceMode |-> practiceMode],
              Void,
              updateCurrentPosition(Begin(globalState), dictId, chapterNumber, wordIndex,
                                    practiceMode))

UpdateChapterLoop(dictId, chapterLoop, practiceMode) ==
    /\ nSteps < MaxSteps
    /\ Finish([op |-> "updateChapterLoop", dictId |-> dictId, chapterLoop |-> chapterLoop,
               practiceMode |-> practiceMode],
              Void,
              updateChapterLoop(Begin(globalState), dictId, chapterLoop, practiceMode))

RecordWordPractice(dictId, chapterNumber, word, isCorrect, practiceMode, dictName) ==
    /\ nSteps < MaxSteps
    /\ Finish([op |-> "recordWordPractice", dictId |-> dictId,
               chapterNumber |-> chapterNumber, word |-> word, isCorrect |-> isCorrect,
               practiceMode |-> practiceMode, dictName |-> dictName],
              Void,
              recordWordPractice(Begin(globalState), dictId, chapterNumber, word, isCorrect,
                                 practiceMode, dictName))

RecordChapterCompletion(dictId, chapterNumber, practiceMode) ==
    /\ nSteps < MaxSteps
    /\ Finish([op |-> "recordChapterCompletion", dictId |-> dictId,
               chapterNumber |-> chapterNumber, practiceMode |-> practiceMode],
              Void,
              recordChapterCompletion(Begin(globalState), dictId, chapterNumber, practiceMode))

FixChapterCompletion(currentDictId) ==
    /\ nSteps < MaxSteps
    /\ Finish([op |-> "fixChapterCompletion", dictId |-> currentDictId],
              Void,
              fixChapterCompletion(Begin(globalState), currentDictId))

CreateDayRecordFile(practiceMode) ==
    /\ nSteps < MaxSteps
    /\ Finish([op |-> "createDayRecordFile", practiceMode |-> practiceMode],
              Void,
              createDayRecordFile(Begin(globalState), practiceMode))

\* time passes between two operations
Tick ==
    /\ nSteps < MaxSteps
    /\ now' = now + 1
    /\ nSteps' = nSteps + 1
    /\ UNCHANGED <<globalState, files, fault, lastCall, lastRet, writeLog, tasks>>

\* the store fails during the next operation
InjectFault(kind) ==
    /\ nSteps < MaxSteps
    /\ fault = "none"
    /\ fault' = kind
    /\ UNCHANGED <<globalState, files, now, nSteps, lastCall, lastRet, writeLog, tasks>>

Operation ==
    \/ \E d \in Dicts, t \in TotalWordsValues, m \in Modes :
          LoadMainRecord(d, "Dict", t, m)
    \/ \E d \in Dicts, c \in Chapters, m \in Modes : LoadChapterRecord(d, c, m)
    \/ \E d \in Dicts, c \in Chapters, i \in WordIndexes, m \in Modes :
          UpdateCurrentPosition(d, c, i, m)
    \/ \E d \in Dicts, l \in BOOLEAN, m \in Modes : UpdateChapterLoop(d, l, m)
    \/ \E d \in Dicts, c \in Chapters, w \in Words, ok \in BOOLEAN, m \in Modes,
          n \in DictNames : RecordWordPractice(d, c, w, ok, m, n)
    \/ \E d \in Dicts, c \in Chapters, m \in Modes : RecordChapterCompletion(d, c, m)
    \/ \E d \in Dicts : FixChapterCompletion(d)
    \/ \E m \in Modes : CreateDayRecordFile(m)

\* an operation on the files ran to its end
FinishFiles(call, ret, S) ==
    /\ files' = S.kv
    /\ writeLog' = S.log
    /\ lastCall' = call
    /\ lastRet' = ret
    /\ nSteps' = nSteps + 1
    /\ fault' = "none"
    /\ UNCHANGED <<now, globalState, tasks>>

Dedup_CreateDayRecordFile(practiceMode) ==
    /\ nSteps < MaxSteps
    /\ FinishFiles([op |-> "dedup.createDayRecordFile", practiceMode |-> practiceMode],
                   Void,
                   Dedup_createDayRecordFile(Begin(files), practiceMode))

Dedup_RecordWordPractice(dictId, dictName, chapterNumber, word, practiceMode) ==
    /\ nSteps < MaxSteps
    /\ FinishFiles([op |-> "dedup.recordWordPractice", dictId |-> dictId,
                    dictName |-> dictName, chapterNumber |-> chapterNumber,
                    word |-> word, practiceMode |-> practiceMode],
                   Void,
                   Dedup_recordWordPractice(Begin(files), dictId, dictName, chapterNumber,
                                            word, practiceMode))

\* a report is asked for a day that has begun
GenerateAnalysis(date) ==
    /\ nSteps < MaxSteps
    /\ date <= DateOf(now)
    /\ Finish([op |-> "generateAnalysis", date |-> date],
              Void,
              generateAnalysis(Begin(globalState), date))

\* the orders in which a list may be handed over
Orders(seq) ==
    {[i \in 1..Len(seq) |-> seq[f[i]]] :
        f \in {g \in [1..Len(seq) -> 1..Len(seq)] :
                   \A i, j \in 1..Len(seq) : g[i] = g[j] => i = j}}

\* the dates of the Day Index that are before today and not yet analysed
UnprocessedPast(gs) ==
    LET totalRecords == IF getTotalRecordKey \in DOMAIN gs THEN gs[getTotalRecordKey]
                        ELSE <<>>
    IN  {totalRecords[i].date : i \in {j \in 1..Len(totalRecords) :
            totalRecords[j].date < getCurrentDate /\ ~totalRecords[j].analysisGenerated}}

\* an activation can run the check: a check that has a date to process is not
\* held back by the step budget
CheckEnabled == nSteps < MaxSteps \/ UnprocessedPast(globalState) # {}

\* activation: getTotalRecords().then(checkAndGenerateMissingAnalysis)
CheckAndGenerateMissingAnalysis ==
    /\ CheckEnabled
    /\ \E totalRecords \in Orders(getTotalRecords(Begin(globalState))) :
          Finish([op |-> "checkAndGenerateMissingAnalysis", totalRecords |-> totalRecords],
                 Void,
                 checkAndGenerateMissingAnalysis(Begin(globalState), totalRecords))

\* midnight passes: a new day begins, with its own budget of steps
NextDay ==
    /\ DateOf(now) < MaxDays
    /\ now' = (DateOf(now) + 1) * TicksPerDay
    /\ nSteps' = 0
    /\ UNCHANGED <<globalState, files, fault, lastCall, lastRet, writeLog, tasks>>

\* the store never fails
Next == Operation \/ Tick

Spec == Init /\ [][Next]_vars

\* the store may fail during any operation
NextFault == Operation \/ Tick \/ \E kind \in Faults : InjectFault(kind)

SpecFault == Init /\ [][NextFault]_vars

\* activations, practice and analysis over several days
NextAnalysis ==
    \/ CreateDayRecordFile("normal")
    \/ \E d \in Dicts : RecordWordPractice(d, 1, "A", TRUE, "normal", "Dict")
    \/ \E date \in 0..MaxDays : GenerateAnalysis(date)
    \/ CheckAndGenerateMissingAnalysis
    \/ NextDay

SpecAnalysis == Init /\ [][NextAnalysis]_vars

\* every activation runs the check, so the check is not postponed forever:
\* WF_vars(CheckAndGenerateMissingAnalysis), written out. The check always
\* advances nSteps and it accepts every order of the index, so it is enabled
\* exactly when CheckEnabled holds.
SpecAnalysisFair ==
    SpecAnalysis
    /\ ([]<>~CheckEnabled \/ []<><<CheckAndGenerateMissingAnalysis>>_vars)

\* the dedup variant of the daily activity log, on its files
NextDedup ==
    \/ \E m \in Modes : Dedup_CreateDayRecordFile(m)
    \/ \E d \in Dicts, c \in Chapters, w \in Words, m \in Modes :
          Dedup_RecordWordPractice(d, "Dict", c, w, m)
    \/ Tick

SpecDedup == Init /\ [][NextDedup]_vars

\* ------------------------------------------------ the public boundary
UpdateTotalRecords(date) ==
    /\ nSteps < MaxSteps
    /\ Finish([op |-> "updateTotalRecords", date |-> date],
              updateTotalRecordsRet(Begin(globalState), date),
              updateTotalRecords(Begin(globalState), date))

SetAnalysisGenerated(date, generated) ==
    /\ nSteps < MaxSteps
    /\ Finish([op |-> "setAnalysisGenerated", date |-> date, generated |-> generated],
              setAnalysisGeneratedRet(Begin(globalState), date, generated),
              setAnalysisGenerated(Begin(globalState), date, generated))

GetDayRecord(date, practiceMode) ==
    /\ nSteps < MaxSteps
    /\ Finish([op |-> "getDayRecord", date |-> date, practiceMode |-> practiceMode],
              getDayRecord(Begin(globalState), date, practiceMode),
              Begin(globalState))

GetTotalRecords ==
    /\ nSteps < MaxSteps
    /\ Finish([op |-> "getTotalRecords"],
              getTotalRecords(Begin(globalState)),
              Begin(globalState))

\* every public operation of the record store, the day log and the
\* aggregator, with a store that may fail
NextBoundary ==
    \/ \E t \in TotalWordsValues : LoadMainRecord("d1", "Dict", t, "normal")
    \/ LoadChapterRecord("d1", 1, "normal")
    \/ UpdateCurrentPosition("d1", 1, 1, "normal")
    \/ UpdateChapterLoop("d1", FALSE, "normal")
    \/ RecordWordPractice("d1", 1, "A", TRUE, "normal", "Dict")
    \/ RecordChapterCompletion("d1", 1, "normal")
    \/ CreateDayRecordFile("normal")
    \/ UpdateTotalRecords(getCurrentDate)
    \/ SetAnalysisGenerated(0, TRUE)
    \/ GetDayRecord(0, "normal")
    \/ GetTotalRecords
    \/ GenerateAnalysis(0)
    \/ CheckAndGenerateMissingAnalysis
    \/ \E kind \in Faults : InjectFault(kind)

SpecBoundary == Init /\ [][NextBoundary]_vars

\* ------------------------------------------- calls outside the contract
\* chapter numbers a caller may pass: the chapters of the dictionary and one
\* beyond its last chapter
AnyChapters == Chapters \cup {9}

\* words a caller may pass: the words of the word book and one it lacks
AnyWords == Words \cup {"Z"}

\* word indexes a caller may pass: one inside the chapter, one beyond it
AnyWordIndexes == WordIndexes \cup {99}

NextContract ==
    \/ LoadMainRecord("d1", "Dict", 11, "normal")
    \/ \E c \in AnyChapters, w \in AnyWords :
          RecordWordPractice("d1", c, w, TRUE, "normal", "Dict")
    \/ \E c \in AnyChapters, i \in AnyWordIndexes :
          UpdateCurrentPosition("d1", c, i, "normal")

SpecContract == Init /\ [][NextContract]_vars

\* ------------------------------------------------------ saves and loads
SaveMainRecord(record) ==
    /\ nSteps < MaxSteps
    /\ Finish([op |-> "saveMainRecord", record |-> record],
              Void,
              saveMainRecord(Begin(globalState), record))

SaveChapterRecord(dictId, chapterRecord, practiceMode) ==
    /\ nSteps < MaxSteps
    /\ Finish([op |-> "saveChapterRecord", dictId |-> dictId,
               chapterRecord |-> chapterRecord, practiceMode |-> practiceMode],
              Void,
              saveChapterRecord(Begin(globalState), dictId, chapterRecord, practiceMode))

\* main records a caller may save: a record as created, moved to chapter 2
MainRecordValue(totalWords, practiceMode) ==
    [createDefaultDictRecord("d1", "Dict", totalWords, practiceMode) EXCEPT
        !.currentChapter = 2, !.lastPracticeTime = 0, !.createdTime = 0]

\* chapter records a caller may save: one word practised once
ChapterRecordValues ==
    {[chapterNumber          |-> c,
      totalWordsInChapter    |-> TOTAL_WORDS_IN_CHAPTER,
      completedWordsCount    |-> 1,
      chapterCompletionCount |-> IF ok THEN 1 ELSE 0,
      lastPracticeTime       |-> 0,
      wordRecords            |->
          ("A" :> [word             |-> "A",
                   practiceCount    |-> 1,
                   correctCount     |-> IF ok THEN 1 ELSE 0,
                   errorCount       |-> IF ok THEN 0 ELSE 1,
                   lastPracticeTime |-> 0,
                   correctRate      |-> CorrectRate(IF ok THEN 1 ELSE 0, 1)])] :
        c \in Chapters, ok \in BOOLEAN}

NextRoundTrip ==
    \/ \E t \in TotalWordsValues, m \in Modes : SaveMainRecord(MainRecordValue(t, m))
    \/ \E t \in TotalWordsValues, m \in Modes : LoadMainRecord("d1", "Dict", t, m)
    \/ \E chapterRecord \in ChapterRecordValues : SaveChapterRecord("d1", chapterRecord, "normal")
    \/ \E c \in Chapters : LoadChapterRecord("d1", c, "normal")
    \/ \E ok \in BOOLEAN : RecordWordPractice("d1", 1, "A", ok, "normal", "Dict")
    \/ \E m \in Modes : CreateDayRecordFile(m)
    \/ \E date \in 0..1, m \in Modes : GetDayRecord(date, m)
    \/ GetTotalRecords
    \/ Tick

SpecRoundTrip == Init /\ [][NextRoundTrip]_vars

\* ------------------------------------------------------- a day's report
\* DayRecordManager.recordWordPractice called on its own: an event in the
\* day log with no practice recorded in the shard
LogWordPractice(dictId, dictName, chapterNumber, word, isCorrect, practiceMode) ==
    /\ nSteps < MaxSteps
    /\ Finish([op |-> "dayRecord.recordWordPractice", dictId |-> dictId,
               dictName |-> dictName, chapterNumber |-> chapterNumber, word |-> word,
               isCorrect |-> isCorrect, practiceMode |-> practiceMode],
              Void,
              DayRecordWordPractice(Begin(globalState), dictId, dictName, chapterNumber,
                                    word, isCorrect, practiceMode))

\* the dictionaries practised in the day of the report
ReportDicts == {"d1", "d2"}

NextReport ==
    \/ \E d \in ReportDicts, c \in Chapters, ok \in BOOLEAN, m \in Modes, n \in DictNames :
          RecordWordPractice(d, c, "A", ok, m, n)
    \/ \E d \in ReportDicts, c \in Chapters, m \in Modes :
          LogWordPractice(d, "Dict", c, "B", TRUE, m)
    \/ GenerateAnalysis(0)

SpecReport == Init /\ [][NextReport]_vars

\* ------------------------------------------------------- progress tracks
\* the operations of the record store and the day log over two dictionaries,
\* two chapters and the two modes, on two days
NextTracks ==
    \/ \E d \in ReportDicts, m \in Modes : LoadMainRecord(d, "Dict", 11, m)
    \/ \E d \in ReportDicts, c \in Chapters, m \in Modes : LoadChapterRecord(d, c, m)
    \/ \E d \in ReportDicts, c \in Chapters, m \in Modes :
          UpdateCurrentPosition(d, c, 1, m)
    \/ \E d \in ReportDicts, m \in Modes : UpdateChapterLoop(d, TRUE, m)
    \/ \E d \in ReportDicts, c \in Chapters, m \in Modes :
          RecordWordPractice(d, c, "A", TRUE, m, "Dict")
    \/ \E d \in ReportDicts, c \in Chapters, m \in Modes :
          RecordChapterCompletion(d, c, m)
    \/ \E m \in Modes : CreateDayRecordFile(m)
    \/ Tick

SpecTracks == Init /\ [][NextTracks]_vars

\* ------------------------------------------- operations that interleave
\* An operation started by a caller that does not wait for another one runs
\* from one await to the next in one step; between two of its steps any other
\* started operation may take steps. tasks holds the position and the locals
\* of each one.
InFlight(t) == t \in DOMAIN tasks /\ tasks[t].pc # "done"

Done(t) == t \in DOMAIN tasks /\ tasks[t].pc = "done"

\* the step of a task: its new position and locals
Resume(t, task) == tasks' = (t :> task) @@ tasks

\* the chapter record after a practice of the word is counted in it
PractisedChapterRecord(chapterRecord, word, isCorrect) ==
    LET wr0         == IF word \in DOMAIN chapterRecord.wordRecords
                       THEN chapterRecord.wordRecords[word]
                       ELSE NewWordRecord(word)
        wordRecords == (word :> PractiseWord(wr0, isCorrect)) @@ chapterRecord.wordRecords
    IN  [chapterRecord EXCEPT
           !.totalWordsInChapter    = TOTAL_WORDS_IN_CHAPTER,
           !.completedWordsCount    = CompletedWordsCount(wordRecords),
           !.chapterCompletionCount = ChapterCompletionCount(wordRecords),
           !.lastPracticeTime       = now,
           !.wordRecords            = wordRecords]

\* the two wordPracticeResult messages whose handlers run side by side
PracticeTasks == {"p1", "p2"}

\* recordWordPractice is called: it runs to `await this.loadChapterRecord`,
\* which has read the shard
RecordWordPractice_Load(t, dictId, chapterNumber, word, isCorrect, practiceMode, dictName) ==
    /\ nSteps < MaxSteps
    /\ t \notin DOMAIN tasks
    /\ Resume(t, [op            |-> "recordWordPractice",
                  pc            |-> "saveChapterRecord",
                  dictId        |-> dictId,
                  chapterNumber |-> chapterNumber,
                  word          |-> word,
                  isCorrect     |-> isCorrect,
                  practiceMode  |-> practiceMode,
                  dictName      |-> dictName,
                  chapterRecord |-> loadChapterRecord(Begin(globalState), dictId,
                                                      chapterNumber, practiceMode).ret])
    /\ nSteps' = nSteps + 1
    /\ UNCHANGED <<globalState, files, now, fault, lastCall, lastRet, writeLog>>

\* it counts the practice in the record it loaded and saves the shard:
\* `await this.saveChapterRecord`
RecordWordPractice_Save(t) ==
    /\ t \in DOMAIN tasks
    /\ tasks[t].pc = "saveChapterRecord"
    /\ LET task == tasks[t]
           S1   == saveChapterRecord(Begin(globalState), task.dictId,
                       PractisedChapterRecord(task.chapterRecord, task.word, task.isCorrect),
                       task.practiceMode)
       IN  /\ globalState' = S1.kv
           /\ writeLog' = S1.log
           /\ Resume(t, [task EXCEPT !.pc = IF task.dictName # "" THEN "dayRecord"
                                            ELSE "done"])
    /\ UNCHANGED <<files, now, fault, nSteps, lastCall, lastRet>>

\* DayRecordManager.recordWordPractice reads the day record and asks for the
\* details of the word: `await this.getWordDetails`, which reads the word
\* book file
RecordWordPractice_ReadDay(t) ==
    /\ t \in DOMAIN tasks
    /\ tasks[t].pc = "dayRecord"
    /\ LET task        == tasks[t]
           currentDate == getCurrentDate
           recordKey   == getDayRecordKey(currentDate, task.practiceMode)
       IN  Resume(t, [op            |-> "recordWordPractice",
                      pc            |-> "getWordDetails",
                      dictId        |-> task.dictId,
                      chapterNumber |-> task.chapterNumber,
                      word          |-> task.word,
                      isCorrect     |-> task.isCorrect,
                      practiceMode  |-> task.practiceMode,
                      dictName      |-> task.dictName,
                      recordKey     |-> recordKey,
                      dayRecord     |-> IF recordKey \in DOMAIN globalState
                                        THEN globalState[recordKey]
                                        ELSE EmptyDayRecord(currentDate)])
    /\ UNCHANGED <<globalState, files, now, fault, nSteps, lastCall, lastRet, writeLog>>

\* the details have arrived: it pushes the event on the record it read and
\* saves it
RecordWordPractice_SaveDay(t) ==
    /\ t \in DOMAIN tasks
    /\ tasks[t].pc = "getWordDetails"
    /\ LET task        == tasks[t]
           wordDetails == getWordDetails(task.dictId, task.chapterNumber, task.word)
           wordRecord  == [word          |-> task.word,
                           translation   |-> wordDetails.translation,
                           usphone       |-> wordDetails.usphone,
                           ukphone       |-> wordDetails.ukphone,
                           dictId        |-> task.dictId,
                           dictName      |-> task.dictName,
                           chapterNumber |-> task.chapterNumber,
                           practiceTime  |-> now,
                           isCorrect     |-> task.isCorrect]
           S1          == Update(Begin(globalState), task.recordKey,
                                 [task.dayRecord EXCEPT !.words = Append(@, wordRecord)])
       IN  /\ globalState' = S1.kv
           /\ writeLog' = S1.log
           /\ Resume(t, [task EXCEPT !.pc = "done"])
    /\ UNCHANGED <<files, now, fault, nSteps, lastCall, lastRet>>

NextPractice ==
    \/ \E t \in PracticeTasks, w \in Words, ok \in BOOLEAN, n \in DictNames :
          RecordWordPractice_Load(t, "d1", 1, w, ok, "normal", n)
    \/ \E t \in PracticeTasks : RecordWordPractice_Save(t)
    \/ \E t \in PracticeTasks : RecordWordPractice_ReadDay(t)
    \/ \E t \in PracticeTasks : RecordWordPractice_SaveDay(t)

SpecPractice == Init /\ [][NextPractice]_vars

\* --------------------------------------------------------------- activation
\* activate() calls createDayRecordFile('normal') and
\* createDayRecordFile('dictation') without awaiting them: each has run to its
\* first await when activate returns. With the DayRecordManager on
\* globalState that is after the day record was read and, when absent, its
\* update was called.
AllSettled == \A t \in DOMAIN tasks : tasks[t].pc = "done"

CreateDayRecordFile_Task(gs, practiceMode) ==
    [op           |-> "createDayRecordFile",
     pc           |-> IF getDayRecordKey(getCurrentDate, practiceMode) \in DOMAIN gs
                      THEN "done" ELSE "updateTotalRecords",
     practiceMode |-> practiceMode,
     date         |-> getCurrentDate,
     wrote        |-> FALSE]

Activate ==
    /\ nSteps < MaxSteps
    /\ AllSettled
    /\ LET Created(S, practiceMode) ==
               IF Has(S, getDayRecordKey(getCurrentDate, practiceMode)) THEN S
               ELSE Update(S, getDayRecordKey(getCurrentDate, practiceMode),
                           EmptyDayRecord(getCurrentDate))
           S1 == Created(Begin(globalState), "normal")
           S2 == Created(S1, "dictation")
       IN  /\ tasks' = [t \in Modes |-> CreateDayRecordFile_Task(globalState, t)]
           /\ globalState' = S2.kv
           /\ writeLog' = S2.log
    /\ nSteps' = nSteps + 1
    /\ UNCHANGED <<files, now, fault, lastCall, lastRet>>

\* the update of the day record has settled: `await this.updateTotalRecords`,
\* which reads the list and saves it without an await in between
CreateDayRecordFile_UpdateTotalRecords(t) ==
    /\ t \in DOMAIN tasks
    /\ tasks[t].pc = "updateTotalRecords"
    /\ LET S1 == updateTotalRecords(Begin(globalState), tasks[t].date)
       IN  /\ globalState' = S1.kv
           /\ writeLog' = S1.log
           /\ Resume(t, [tasks[t] EXCEPT !.pc = "done", !.wrote = S1.log # <<>>])
    /\ UNCHANGED <<files, now, fault, nSteps, lastCall, lastRet>>

\* The DayRecordManager on files, activated as in the earlier activate():
\* the two createDayRecordFile calls and
\* getTotalRecords().then(checkAndGenerateMissingAnalysis), none awaited.
\* Each file access is awaited and takes effect in a step of its own.
getAnalysisFilePath(date) ==
    "data/userdata/dayRecordsAnalyze/" \o ToString(date) \o "_analysis.json"

Dedup_Activate ==
    /\ nSteps < MaxSteps
    /\ AllSettled
    /\ tasks' = [t \in Modes \cup {"check"} |->
                    IF t = "check"
                    THEN [op   |-> "checkAndGenerateMissingAnalysis",
                          pc   |-> "getTotalRecords",
                          date |-> getCurrentDate]
                    ELSE [op           |-> "createDayRecordFile",
                          pc           |-> "stat",
                          practiceMode |-> t,
                          date         |-> getCurrentDate,
                          wrote        |-> FALSE]]
    /\ nSteps' = nSteps + 1
    /\ UNCHANGED <<globalState, files, now, fault, lastCall, lastRet, writeLog>>

\* a step of a task that leaves the files as they are
ReadStep(t, task) ==
    /\ Resume(t, task)
    /\ UNCHANGED <<globalState, files, now, fault, nSteps, lastCall, lastRet, writeLog>>

\* a step of a task that writes one file
WriteStep(t, task, path, content) ==
    /\ Resume(t, task)
    /\ files' = (path :> content) @@ files
    /\ UNCHANGED <<globalState, now, fault, nSteps, lastCall, lastRet, writeLog>>

\* createDayRecordFile: `await vscode.workspace.fs.stat(recordPath)`
Dedup_Stat(t) ==
    /\ t \in DOMAIN tasks
    /\ tasks[t].pc = "stat"
    /\ ReadStep(t, [tasks[t] EXCEPT !.pc =
                       IF getDayRecordPath(tasks[t].date, tasks[t].practiceMode)
                              \in DOMAIN files
                       THEN "done" ELSE "writeFile"])

\* createDayRecordFile: `await vscode.workspace.fs.writeFile(recordPath, ...)`
Dedup_WriteDayRecord(t) ==
    /\ t \in DOMAIN tasks
    /\ tasks[t].pc = "writeFile"
    /\ WriteStep(t, [tasks[t] EXCEPT !.pc = "readTotalRecords"],
                 getDayRecordPath(tasks[t].date, tasks[t].practiceMode),
                 Dedup_EmptyDayRecord(tasks[t].date))

\* updateTotalRecords: `await vscode.workspace.fs.readFile(totalRecordPath)`,
\* then the date is looked for and pushed on the list that was read
Dedup_ReadTotalRecords(t) ==
    /\ t \in DOMAIN tasks
    /\ tasks[t].pc = "readTotalRecords"
    /\ LET task         == tasks[t]
           totalRecords == IF getTotalRecordPath \in DOMAIN files
                           THEN files[getTotalRecordPath] ELSE <<>>
       IN  IF \E i \in 1..Len(totalRecords) : totalRecords[i].date = task.date
           THEN ReadStep(t, [task EXCEPT !.pc = "done"])
           ELSE ReadStep(t, [op           |-> task.op,
                             pc           |-> "writeTotalRecords",
                             practiceMode |-> task.practiceMode,
                             date         |-> task.date,
                             wrote        |-> FALSE,
                             totalRecords |->
                                 Append(totalRecords,
                                        [date |-> task.date, analysisGenerated |-> FALSE])])

\* updateTotalRecords: `await vscode.workspace.fs.writeFile(totalRecordPath, ...)`
Dedup_WriteTotalRecords(t) ==
    /\ t \in DOMAIN tasks
    /\ tasks[t].pc = "writeTotalRecords"
    /\ WriteStep(t, [tasks[t] EXCEPT !.pc = "done", !.wrote = TRUE],
                 getTotalRecordPath, tasks[t].totalRecords)

\* the date checkAndGenerateMissingAnalysis processes: the newest one before
\* today that is not generated, if any
MissingAnalysisDates(totalRecords) ==
    LET today         == getCurrentDate
        sortedRecords == SortByDateDesc(totalRecords)
        due           == {i \in 1..Len(sortedRecords) :
                             /\ sortedRecords[i].date < today
                             /\ ~sortedRecords[i].analysisGenerated}
    IN  IF due = {} THEN {} ELSE {sortedRecords[Min(due)].date}

\* getTotalRecords: `await vscode.workspace.fs.readFile(totalRecordPath)`,
\* then checkAndGenerateMissingAnalysis looks for the date to process
Dedup_GetTotalRecords(t) ==
    /\ t \in DOMAIN tasks
    /\ tasks[t].pc = "getTotalRecords"
    /\ LET totalRecords == IF getTotalRecordPath \in DOMAIN files
                           THEN files[getTotalRecordPath] ELSE <<>>
           missing      == MissingAnalysisDates(totalRecords)
       IN  IF missing = {}
           THEN ReadStep(t, [tasks[t] EXCEPT !.pc = "done"])
           ELSE ReadStep(t, [op     |-> tasks[t].op,
                             pc     |-> "readDayRecord",
                             date   |-> tasks[t].date,
                             target |-> CHOOSE d \in missing : TRUE])

\* processRecordData of the analysis over the day files
Dedup_processRecordData(record) ==
    [dicts |-> [d \in DOMAIN record.dicts |->
        [dictId   |-> record.dicts[d].dictId,
         dictName |-> record.dicts[d].dictName,
         chapters |-> [c \in DOMAIN record.dicts[d].chapters |->
             [chapterNumber |-> record.dicts[d].chapters[c].chapterNumber,
              wordCount     |-> Len(record.dicts[d].chapters[c].words),
              words         |-> record.dicts[d].chapters[c].words]]]]]

\* the chapters and words a day file holds for a dictionary
Dedup_ModeCounts(record, dictId) ==
    IF record # Null /\ dictId \in DOMAIN record.dicts
    THEN LET chapters == record.dicts[dictId].chapters
         IN  [chapters |-> Cardinality(DOMAIN chapters),
              words    |-> SumFn([k \in DOMAIN chapters |-> Len(chapters[k].words)],
                                 DOMAIN chapters)]
    ELSE [chapters |-> 0, words |-> 0]

\* the report of generateAnalysis over the day files; a dictionary without
\* details is left out of the summary
Dedup_AnalysisData(date, normalRecord, dictationRecord) ==
    LET allDicts == (IF normalRecord # Null THEN DOMAIN normalRecord.dicts ELSE {})
                    \cup (IF dictationRecord # Null THEN DOMAIN dictationRecord.dicts
                          ELSE {})
        known    == {d \in allDicts : getDictDetails(d) # Null}
        dictSummary == [d \in known |->
            [dictId           |-> d,
             dictName         |-> getDictDetails(d).name,
             totalWordsInDict |-> getDictDetails(d).totalWords,
             normalMode       |-> Dedup_ModeCounts(normalRecord, d),
             dictationMode    |-> Dedup_ModeCounts(dictationRecord, d)]]
    IN  [date          |-> date,
         generatedAt   |-> now,
         normalMode    |-> IF normalRecord # Null
                           THEN Dedup_processRecordData(normalRecord) ELSE Null,
         dictationMode |-> IF dictationRecord # Null
                           THEN Dedup_processRecordData(dictationRecord) ELSE Null,
         summary       |->
            [totalDicts    |-> Cardinality(known),
             totalChapters |-> SumFn([d \in known |->
                                        dictSummary[d].normalMode.chapters
                                        + dictSummary[d].dictationMode.chapters], known),
             totalWords    |-> SumFn([d \in known |->
                                        dictSummary[d].normalMode.words
                                        + dictSummary[d].dictationMode.words], known),
             dicts         |-> dictSummary]]

\* generateAnalysis: the two `await this.readDayRecord` and the report built
\* from them
Dedup_ReadDayRecords(t) ==
    /\ t \in DOMAIN tasks
    /\ tasks[t].pc = "readDayRecord"
    /\ LET task == tasks[t]
           Record(practiceMode) ==
               IF getDayRecordPath(task.target, practiceMode) \in DOMAIN files
               THEN files[getDayRecordPath(task.target, practiceMode)]
               ELSE Null
       IN  ReadStep(t, [op           |-> task.op,
                        pc           |-> "writeAnalysis",
                        date         |-> task.date,
                        target       |-> task.target,
                        analysisData |->
                            Dedup_AnalysisData(task.target, Record("normal"),
                                               Record("dictation"))])

\* generateAnalysis: `await vscode.workspace.fs.writeFile(analysisPath, ...)`
Dedup_WriteAnalysis(t) ==
    /\ t \in DOMAIN tasks
    /\ tasks[t].pc = "writeAnalysis"
    /\ WriteStep(t, [op     |-> tasks[t].op,
                     pc     |-> "setAnalysisGenerated",
                     date   |-> tasks[t].date,
                     target |-> tasks[t].target],
                 getAnalysisFilePath(tasks[t].target), tasks[t].analysisData)

\* setAnalysisGenerated: `await vscode.workspace.fs.readFile(totalRecordPath)`,
\* then the flag is set in the list that was read
Dedup_ReadForFlag(t) ==
    /\ t \in DOMAIN tasks
    /\ tasks[t].pc = "setAnalysisGenerated"
    /\ LET task         == tasks[t]
           totalRecords == IF getTotalRecordPath \in DOMAIN files
                           THEN files[getTotalRecordPath] ELSE <<>>
       IN  IF \E i \in 1..Len(totalRecords) : totalRecords[i].date = task.target
           THEN ReadStep(t, [op           |-> task.op,
                             pc           |-> "writeFlag",
                             date         |-> task.date,
                             target       |-> task.target,
                             totalRecords |->
                                 [i \in 1..Len(totalRecords) |->
                                     IF /\ totalRecords[i].date = task.target
                                        /\ \A j \in 1..(i - 1) :
                                              totalRecords[j].date # task.target
                                     THEN [totalRecords[i] EXCEPT !.analysisGenerated = TRUE]
                                     ELSE totalRecords[i]]])
           ELSE ReadStep(t, [op     |-> task.op,
                             pc     |-> "done",
                             date   |-> task.date,
                             target |-> task.target])

\* setAnalysisGenerated: `await vscode.workspace.fs.writeFile(totalRecordPath, ...)`
Dedup_WriteFlag(t) ==
    /\ t \in DOMAIN tasks
    /\ tasks[t].pc = "writeFlag"
    /\ WriteStep(t, [op     |-> tasks[t].op,
                     pc     |-> "done",
                     date   |-> tasks[t].date,
                     target |-> tasks[t].target],
                 getTotalRecordPath, tasks[t].totalRecords)

\* the next activation is on a later day, when the previous one has settled
Midnight == AllSettled /\ NextDay

NextActivation ==
    \/ Activate
    \/ \E t \in Modes : CreateDayRecordFile_UpdateTotalRecords(t)
    \/ Dedup_Activate
    \/ \E t \in Modes : Dedup_Stat(t)
    \/ \E t \in Modes : Dedup_WriteDayRecord(t)
    \/ \E t \in Modes : Dedup_ReadTotalRecords(t)
    \/ \E t \in Modes : Dedup_WriteTotalRecords(t)
    \/ Dedup_GetTotalRecords("check")
    \/ Dedup_ReadDayRecords("check")
    \/ Dedup_WriteAnalysis("check")
    \/ Dedup_ReadForFlag("check")
    \/ Dedup_WriteFlag("check")
    \/ Midnight

SpecActivation == Init /\ [][NextActivation]_vars

\* ------------------------------------------------------ analysis and reset
\* key.startsWith(prefix)
StartsWith(key, prefix) ==
    Len(key) >= Len(prefix) /\ SubSeq(key, 1, Len(prefix)) = prefix

\* await globalState.update(key, undefined) removes the key; a rejected update
\* removes nothing
Delete(S, key) ==
    [kv  |-> IF WriteFails THEN S.kv ELSE [k \in DOMAIN S.kv \ {key} |-> S.kv[k]],
     log |-> Append(S.log, key)]

\* a new call may use the name of a call that has returned
Free(t) == t \in DOMAIN tasks => tasks[t].pc = "done"

\* DayAnalysisManager.generateAnalysis up to its first update: the two day
\* records are read and the report is built (getDictDetails awaits the word
\* book files in between); a day record without a words array ends the call
\* in its catch block
GenerateAnalysis_Read(t, date) ==
    /\ nSteps < MaxSteps
    /\ Free(t)
    /\ LET S               == Begin(globalState)
           normalRecord    == readDayRecord(S, date, "normal")
           dictationRecord == readDayRecord(S, date, "dictation")
           Processed(record, mode) ==
               IF record # Null THEN processRecordData(S, record, mode) ELSE Null
       IN  IF \/ normalRecord # Null /\ ~WordsIterable(normalRecord)
              \/ dictationRecord # Null /\ ~WordsIterable(dictationRecord)
           THEN Resume(t, [op |-> "generateAnalysis", pc |-> "done", date |-> date])
           ELSE Resume(t, [op           |-> "generateAnalysis",
                           pc           |-> "report",
                           date         |-> date,
                           analysisData |->
                               AnalysisData(date, Processed(normalRecord, "normal"),
                                            Processed(dictationRecord, "dictation"))])
    /\ nSteps' = nSteps + 1
    /\ UNCHANGED <<globalState, files, now, fault, lastCall, lastRet, writeLog>>

\* `await this.context.globalState.update(analysisKey, analysisData)`; a
\* rejected update ends the call in its catch block
GenerateAnalysis_SaveReport(t) ==
    /\ t \in DOMAIN tasks
    /\ tasks[t].op = "generateAnalysis"
    /\ tasks[t].pc = "report"
    /\ LET task == tasks[t]
           S1   == Update(Begin(globalState), getAnalysisKey(task.date), task.analysisData)
       IN  /\ globalState' = S1.kv
           /\ writeLog' = S1.log
           /\ Resume(t, [task EXCEPT !.pc = IF WriteFails THEN "done" ELSE "flag"])
    /\ fault' = "none"
    /\ UNCHANGED <<files, now, nSteps, lastCall, lastRet>>

\* the update of the report has settled:
\* `await dayRecordManager.setAnalysisGenerated(date, true)`, which reads the
\* list and saves it without an await in between
GenerateAnalysis_SetFlag(t) ==
    /\ t \in DOMAIN tasks
    /\ tasks[t].op = "generateAnalysis"
    /\ tasks[t].pc = "flag"
    /\ LET S1 == setAnalysisGenerated(Begin(globalState), tasks[t].date, TRUE)
       IN  /\ globalState' = S1.kv
           /\ writeLog' = S1.log
           /\ Resume(t, [tasks[t] EXCEPT !.pc = "done"])
    /\ fault' = "none"
    /\ UNCHANGED <<files, now, nSteps, lastCall, lastRet>>

\* resetAllData from where it stands to its next await: the update that
\* removes the next key it listed, or, after the last, the update that stores
\* the list with today's entry. The keys come in the order of
\* globalState.keys(), which the store decides. A rejected update ends the
\* call in its catch block.
ResetAllData_Continue(t, task) ==
    IF task.keys = {}
    THEN LET today        == getCurrentDate
             totalRecords == <<[date |-> today, analysisGenerated |-> FALSE]>>
             S1           == Update(Begin(globalState), getTotalRecordKey, totalRecords)
         IN  /\ globalState' = S1.kv
             /\ writeLog' = S1.log
             /\ Resume(t, [task EXCEPT !.pc = "done"])
    ELSE \E key \in task.keys :
            LET S1 == Delete(Begin(globalState), key)
            IN  /\ globalState' = S1.kv
                /\ writeLog' = S1.log
                /\ Resume(t, [task EXCEPT !.keys = @ \ {key},
                                          !.pc = IF WriteFails THEN "done" ELSE "update"])

\* DataViewerProvider.resetAllData is called: it lists the keys and calls its
\* first update
ResetAllData(t) ==
    /\ nSteps < MaxSteps
    /\ Free(t)
    /\ ResetAllData_Continue(t,
           [op   |-> "resetAllData",
            pc   |-> "update",
            keys |-> {key \in DOMAIN globalState : StartsWith(key, "enpractice.")}])
    /\ nSteps' = nSteps + 1
    /\ fault' = "none"
    /\ UNCHANGED <<files, now, lastCall, lastRet>>

\* an update of resetAllData has settled
ResetAllData_Update(t) ==
    /\ t \in DOMAIN tasks
    /\ tasks[t].op = "resetAllData"
    /\ tasks[t].pc = "update"
    /\ ResetAllData_Continue(t, tasks[t])
    /\ fault' = "none"
    /\ UNCHANGED <<files, now, nSteps, lastCall, lastRet>>

\* an activation, analyses asked for by the data viewer and a reset, side by
\* side, with updates that may be rejected
NextFlag ==
    \/ CreateDayRecordFile("normal")
    \/ \E date \in 0..MaxDays : GenerateAnalysis_Read("analysis", date)
    \/ GenerateAnalysis_SaveReport("analysis")
    \/ GenerateAnalysis_SetFlag("analysis")
    \/ ResetAllData("reset")
    \/ ResetAllData_Update("reset")
    \/ InjectFault("write")

SpecFlag == Init /\ [][NextFlag]_vars

\* ------------------------------------------------------------ properties
ChapterKeys ==
    {getChapterRecordKey(d, c, m) : d \in Dicts, c \in Chapters, m \in Modes}

\* the chapter shards a store holds
Shards(gs) == {gs[k] : k \in ChapterKeys \cap DOMAIN gs}

\* the word records a store holds, over all its shards
WordRecordsOf(gs) ==
    UNION {{sh.wordRecords[w] : w \in DOMAIN sh.wordRecords} : sh \in Shards(gs)}

\* the step is a complete run of the operation `name`
OpStep(name) ==
    /\ nSteps' = nSteps + 1
    /\ now' = now
    /\ lastCall'.op = name

\* C1: every stored chapter shard has chapterCompletionCount equal to the
\* smallest correctCount among its word records with practiceCount > 0 (it is
\* at most each of them and equal to one of them), and 0 when there is none.
C1_CompletionIsMinCorrect ==
    \A sh \in Shards(globalState) :
        LET P == {w \in DOMAIN sh.wordRecords : sh.wordRecords[w].practiceCount > 0}
        IN  IF P = {}
            THEN sh.chapterCompletionCount = 0
            ELSE /\ \A w \in P : sh.chapterCompletionCount <= sh.wordRecords[w].correctCount
                 /\ \E w \in P : sh.chapterCompletionCount = sh.wordRecords[w].correctCount

\* a shard with two practised words of different correct counts, the smaller
\* one positive, written by recordWordPractice
C1_Witness ==
    /\ lastCall.op = "recordWordPractice"
    /\ \E sh \in Shards(globalState) :
          \E v, w \in DOMAIN sh.wordRecords :
              /\ sh.wordRecords[v].correctCount > sh.wordRecords[w].correctCount
              /\ sh.wordRecords[w].correctCount > 0
              /\ sh.chapterCompletionCount = sh.wordRecords[w].correctCount

\* the counters of `word` in the shard stored under `key`, zero when absent
CountersAt(gs, key, word) ==
    IF key \in DOMAIN gs /\ word \in DOMAIN gs[key].wordRecords
    THEN LET wr == gs[key].wordRecords[word]
         IN  [p |-> wr.practiceCount, c |-> wr.correctCount, e |-> wr.errorCount]
    ELSE [p |-> 0, c |-> 0, e |-> 0]

\* C2: every stored word record has practiceCount = correctCount + errorCount,
\* and each recordWordPractice adds exactly 1 to the word's practiceCount and
\* exactly 1 to its correctCount (isCorrect) or to its errorCount (otherwise).
C2_PracticeCountIsSum ==
    [][ /\ \A wr \in WordRecordsOf(globalState') :
              wr.practiceCount = wr.correctCount + wr.errorCount
        /\ OpStep("recordWordPractice") =>
              LET call == lastCall'
                  key  == getChapterRecordKey(call.dictId, call.chapterNumber,
                                              call.practiceMode)
                  old  == CountersAt(globalState, key, call.word)
                  new  == CountersAt(globalState', key, call.word)
              IN  /\ new.p = old.p + 1
                  /\ new.c = old.c + (IF call.isCorrect THEN 1 ELSE 0)
                  /\ new.e = old.e + (IF call.isCorrect THEN 0 ELSE 1)
      ]_vars

\* a word practised correctly twice and incorrectly once
C2_Witness ==
    \E wr \in WordRecordsOf(globalState) :
        wr.practiceCount = 3 /\ wr.correctCount = 2 /\ wr.errorCount = 1

C4_CompletedWordsCount ==
    \A sh \in Shards(globalState) :
        sh.completedWordsCount =
            Cardinality({w \in DOMAIN sh.wordRecords : sh.wordRecords[w].practiceCount > 0})

\* a shard where one word was practised three times and the other never: one
\* word is counted, not three practices, and the unpractised word is left out
C4_Witness ==
    \E sh \in Shards(globalState) :
        /\ sh.completedWordsCount = 1
        /\ DOMAIN sh.wordRecords # Words
        /\ \E w \in DOMAIN sh.wordRecords : sh.wordRecords[w].practiceCount = 3

\* C5: under recordWordPractice, recordChapterCompletion, loadMainRecord and
\* loadChapterRecord, also when a store read fails, a word record once stored
\* in a shard is in every later version of the shard, with practiceCount,
\* correctCount and errorCount at least as large as before.
C5_WordRecordsNeverLost ==
    [][ (\/ OpStep("recordWordPractice") \/ OpStep("recordChapterCompletion")
         \/ OpStep("loadMainRecord") \/ OpStep("loadChapterRecord")) =>
            \A k \in ChapterKeys \cap DOMAIN globalState :
                \A w \in DOMAIN globalState[k].wordRecords :
                    LET old == CountersAt(globalState, k, w)
                        new == CountersAt(globalState', k, w)
                    IN  /\ k \in DOMAIN globalState'
                        /\ w \in DOMAIN globalState'[k].wordRecords
                        /\ new.p >= old.p /\ new.c >= old.c /\ new.e >= old.e
      ]_vars

\* C6: after loadMainRecord(dictId, name, T, mode) the returned record and the
\* record stored under (dictId, mode) have totalWords = T and
\* totalChapters = ceil(T / 10), whatever was stored before, and keep the
\* currentChapter, currentWordIndex and chapterLoop of an existing record.
C6_LoadMainHealsTotals ==
    [][ OpStep("loadMainRecord") =>
            LET call == lastCall'
                T    == call.totalWords
                key  == getMainRecordKey(call.dictId, call.practiceMode)
                Good(r) ==
                    /\ r.totalWords = T
                    /\ r.totalChapters * FIXED_WORDS_PER_CHAPTER >= T
                    /\ (r.totalChapters - 1) * FIXED_WORDS_PER_CHAPTER < T
                    /\ key \in DOMAIN globalState =>
                          /\ r.currentChapter = globalState[key].currentChapter
                          /\ r.currentWordIndex = globalState[key].currentWordIndex
                          /\ r.chapterLoop = globalState[key].chapterLoop
            IN  /\ Good(lastRet')
                /\ key \in DOMAIN globalState'
                /\ Good(globalState'[key])
      ]_vars

\* a record whose position had been moved to chapter 2 is loaded with 25 words:
\* 3 chapters, position kept, and the corrected record was written
C6_Witness ==
    /\ lastCall.op = "loadMainRecord"
    /\ lastCall.totalWords = 25
    /\ lastRet.totalChapters = 3
    /\ lastRet.currentChapter = 2
    /\ writeLog = <<getMainRecordKey(lastCall.dictId, lastCall.practiceMode)>>

\* C7: loadMainRecord with the totalWords the stored record already has calls
\* no update, leaves the store (lastPracticeTime included) as it was and
\* returns the stored record; a second identical call returns what the first
\* returned.
C7_LoadMainIdempotent ==
    [][ OpStep("loadMainRecord") =>
            LET call == lastCall'
                key  == getMainRecordKey(call.dictId, call.practiceMode)
            IN  /\ (key \in DOMAIN globalState
                    /\ globalState[key].totalWords = call.totalWords) =>
                        /\ writeLog' = <<>>
                        /\ globalState' = globalState
                        /\ lastRet' = globalState[key]
                /\ lastCall = call => (lastRet' = lastRet /\ writeLog' = <<>>)
      ]_vars

\* the same load twice, the second at a later time than the record's stamp
C7_Witness ==
    /\ lastCall.op = "loadMainRecord"
    /\ writeLog = <<>>
    /\ lastRet.totalWords = lastCall.totalWords
    /\ lastRet.lastPracticeTime < now
    /\ globalState[getMainRecordKey(lastCall.dictId, lastCall.practiceMode)] = lastRet

\* C8: updateCurrentPosition sets currentChapter and currentWordIndex and
\* updateChapterLoop sets chapterLoop in the stored main record, and both
\* leave its totalWords, totalChapters, dictName and createdTime as they were
\* stored before the call.
C8_PositionUpdateFrame ==
    [][ (OpStep("updateCurrentPosition") \/ OpStep("updateChapterLoop")) =>
            LET call == lastCall'
                key  == getMainRecordKey(call.dictId, call.practiceMode)
            IN  /\ key \in DOMAIN globalState'
                /\ call.op = "updateCurrentPosition" =>
                      /\ globalState'[key].currentChapter = call.chapterNumber
                      /\ globalState'[key].currentWordIndex = call.wordIndex
                /\ call.op = "updateChapterLoop" =>
                      globalState'[key].chapterLoop = call.chapterLoop
                /\ key \in DOMAIN globalState =>
                      /\ globalState'[key].totalWords = globalState[key].totalWords
                      /\ globalState'[key].totalChapters = globalState[key].totalChapters
                      /\ globalState'[key].dictName = globalState[key].dictName
                      /\ globalState'[key].createdTime = globalState[key].createdTime
      ]_vars

\* C9: loadChapterRecord calls no update and leaves the store as it was; for
\* an absent shard it returns a default with no word records and both counts
\* 0, and the shard is still absent; for a stored shard it returns the shard.
C9_LoadChapterPure ==
    [][ OpStep("loadChapterRecord") =>
            LET call == lastCall'
                key  == getChapterRecordKey(call.dictId, call.chapterNumber,
                                            call.practiceMode)
            IN  /\ writeLog' = <<>>
                /\ globalState' = globalState
                /\ key \notin DOMAIN globalState =>
                      /\ lastRet'.chapterNumber = call.chapterNumber
                      /\ DOMAIN lastRet'.wordRecords = {}
                      /\ lastRet'.completedWordsCount = 0
                      /\ lastRet'.chapterCompletionCount = 0
                      /\ key \notin DOMAIN globalState'
                /\ key \in DOMAIN globalState => lastRet' = globalState[key]
      ]_vars

\* a load of an absent shard, after which the shard is still absent while
\* another shard is stored
C9_Witness ==
    /\ lastCall.op = "loadChapterRecord"
    /\ DOMAIN lastRet.wordRecords = {}
    /\ getChapterRecordKey(lastCall.dictId, lastCall.chapterNumber, lastCall.practiceMode)
          \notin DOMAIN globalState
    /\ Shards(globalState) # {}

\* C10: every chapter shard in the store has at least one word record and
\* every word record in it has practiceCount >= 1, and recordWordPractice
\* writes the shard whenever it holds a word record after the update.
C10_NoEmptyShard ==
    [][ /\ \A sh \in Shards(globalState') :
              /\ DOMAIN sh.wordRecords # {}
              /\ \A w \in DOMAIN sh.wordRecords : sh.wordRecords[w].practiceCount >= 1
        /\ OpStep("recordWordPractice") =>
              LET call == lastCall'
                  key  == getChapterRecordKey(call.dictId, call.chapterNumber,
                                              call.practiceMode)
              IN  /\ key \in DOMAIN globalState'
                  /\ \E i \in 1..Len(writeLog') : writeLog'[i] = key
      ]_vars

\* C11: recordChapterCompletion on a stored shard with word records writes
\* that shard once, with chapterCompletionCount the smallest correctCount of
\* its practised words (0 when none), completedWordsCount the number of its
\* practised words, and every word record as it was; on a (dictId, mode,
\* chapter) with no stored word records it calls no update, and no shard is
\* created.
C11_ChapterCompletion ==
    [][ OpStep("recordChapterCompletion") =>
            LET call == lastCall'
                key  == getChapterRecordKey(call.dictId, call.chapterNumber,
                                            call.practiceMode)
            IN  IF key \in DOMAIN globalState /\ DOMAIN globalState[key].wordRecords # {}
                THEN LET old == globalState[key]
                         new == globalState'[key]
                         P   == {w \in DOMAIN old.wordRecords :
                                    old.wordRecords[w].practiceCount > 0}
                     IN  /\ writeLog' = <<key>>
                         /\ new.wordRecords = old.wordRecords
                         /\ new.completedWordsCount = Cardinality(P)
                         /\ IF P = {} THEN new.chapterCompletionCount = 0
                            ELSE /\ \A w \in P : new.chapterCompletionCount
                                                    <= old.wordRecords[w].correctCount
                                 /\ \E w \in P : new.chapterCompletionCount
                                                    = old.wordRecords[w].correctCount
                         /\ \A k \in DOMAIN globalState \ {key} :
                               k \in DOMAIN globalState' /\ globalState'[k] = globalState[k]
                ELSE /\ writeLog' = <<>>
                     /\ globalState' = globalState
      ]_vars

\* a chapter completed on a shard with two practised words, one answered
\* correctly and one not: the shard is written, with count 0 and two words
C11_Witness ==
    /\ lastCall.op = "recordChapterCompletion"
    /\ LET key == getChapterRecordKey(lastCall.dictId, lastCall.chapterNumber,
                                      lastCall.practiceMode)
       IN  /\ writeLog = <<key>>
           /\ key \in DOMAIN globalState
           /\ globalState[key].completedWordsCount = 2
           /\ globalState[key].chapterCompletionCount = 0

\* a chapter completed where no shard is stored: nothing is written
C11_WitnessAbsent ==
    /\ lastCall.op = "recordChapterCompletion"
    /\ writeLog = <<>>
    /\ getChapterRecordKey(lastCall.dictId, lastCall.chapterNumber, lastCall.practiceMode)
          \notin DOMAIN globalState

DayKeys == {getDayRecordKey(d, m) : d \in 0..MaxSteps, m \in Modes}

\* C12: recordWordPractice with an empty dictName writes the chapter shard and
\* nothing else: no day record and no Day Index entry is created or changed;
\* with a non-empty dictName it writes the shard first and then today's day
\* record of the mode, whose last event carries the call's dictId, chapter,
\* word and isCorrect.
C12_ForwardIffDictName ==
    [][ OpStep("recordWordPractice") =>
            LET call     == lastCall'
                shardKey == getChapterRecordKey(call.dictId, call.chapterNumber,
                                                call.practiceMode)
                dayKey   == getDayRecordKey(getCurrentDate, call.practiceMode)
            IN  IF call.dictName = ""
                THEN /\ writeLog' = <<shardKey>>
                     /\ DOMAIN globalState' = DOMAIN globalState \cup {shardKey}
                     /\ \A k \in DOMAIN globalState \ {shardKey} :
                           globalState'[k] = globalState[k]
                ELSE /\ writeLog' = <<shardKey, dayKey>>
                     /\ dayKey \in DOMAIN globalState'
                     /\ LET words == globalState'[dayKey].words
                        IN  /\ Len(words) >= 1
                            /\ words[Len(words)].dictId = call.dictId
                            /\ words[Len(words)].chapterNumber = call.chapterNumber
                            /\ words[Len(words)].word = call.word
                            /\ words[Len(words)].isCorrect = call.isCorrect
      ]_vars

\* a practice reported without a dictName after one reported with a dictName:
\* the shard holds both practices, the day record holds the first only
C12_Witness ==
    /\ lastCall.op = "recordWordPractice"
    /\ lastCall.dictName = ""
    /\ LET shardKey == getChapterRecordKey(lastCall.dictId, lastCall.chapterNumber,
                                           lastCall.practiceMode)
           dayKey   == getDayRecordKey(getCurrentDate, lastCall.practiceMode)
       IN  /\ writeLog = <<shardKey>>
           /\ dayKey \in DOMAIN globalState
           /\ Len(globalState[dayKey].words) = 1
           /\ globalState[shardKey].wordRecords[lastCall.word].practiceCount = 2

\* the event list of the day record stored under `key`, empty when absent
EventsAt(gs, key) == IF key \in DOMAIN gs THEN gs[key].words ELSE <<>>

DayPaths == {getDayRecordPath(d, m) : d \in 0..MaxSteps, m \in Modes}

\* the word list of (dictId, chapter) in the day file at `path`, empty when
\* the file, the dictionary or the chapter is absent
DedupWordsAt(fs, path, dictId, chapterNumber) ==
    IF /\ path \in DOMAIN fs
       /\ dictId \in DOMAIN fs[path].dicts
       /\ ToString(chapterNumber) \in DOMAIN fs[path].dicts[dictId].chapters
    THEN fs[path].dicts[dictId].chapters[ToString(chapterNumber)].words
    ELSE <<>>

\* C14: in the dedup day log no word list of any day, mode, dictionary and
\* chapter contains a word twice; recordWordPractice adds the word at the end
\* of today's list of (dictId, chapter) when it is absent, and when it is
\* present writes nothing and leaves every file as it was.
C14_DedupOncePerDay ==
    [][ /\ \A p \in DayPaths \cap DOMAIN files' :
              \A d \in DOMAIN files'[p].dicts :
                  \A c \in DOMAIN files'[p].dicts[d].chapters :
                      LET words == files'[p].dicts[d].chapters[c].words
                      IN  \A i, j \in 1..Len(words) : words[i] = words[j] => i = j
        /\ OpStep("dedup.recordWordPractice") =>
              LET call == lastCall'
                  path == getDayRecordPath(getCurrentDate, call.practiceMode)
                  old  == DedupWordsAt(files, path, call.dictId, call.chapterNumber)
                  new  == DedupWordsAt(files', path, call.dictId, call.chapterNumber)
              IN  IF Includes(old, call.word)
                  THEN writeLog' = <<>> /\ files' = files
                  ELSE writeLog' = <<path>> /\ new = Append(old, call.word)
      ]_vars

\* the same word reported twice for one day, mode, dictionary and chapter
\* after another word: the second report wrote nothing
C14_Witness ==
    /\ lastCall.op = "dedup.recordWordPractice"
    /\ writeLog = <<>>
    /\ LET path == getDayRecordPath(getCurrentDate, lastCall.practiceMode)
       IN  /\ Len(DedupWordsAt(files, path, lastCall.dictId, lastCall.chapterNumber)) = 2
           /\ Includes(DedupWordsAt(files, path, lastCall.dictId, lastCall.chapterNumber),
                       lastCall.word)

\* the Day Index a store holds, empty when absent
DayIndex(gs) == IF getTotalRecordKey \in DOMAIN gs THEN gs[getTotalRecordKey] ELSE <<>>

\* the dates the Day Index of a store lists
IndexedDates(gs) == {DayIndex(gs)[i].date : i \in 1..Len(DayIndex(gs))}

\* C15: after createDayRecordFile(mode), whatever the store held before,
\* today's day record of the mode is stored and the Day Index has an entry
\* for today's date; an entry it adds has analysisGenerated = FALSE, and a
\* day record or index entry that existed is left as it was.
C15_EnsureTodayRecord ==
    [][ OpStep("createDayRecordFile") =>
            LET call   == lastCall'
                dayKey == getDayRecordKey(getCurrentDate, call.practiceMode)
                old    == DayIndex(globalState)
                new    == DayIndex(globalState')
            IN  /\ dayKey \in DOMAIN globalState'
                /\ getCurrentDate \in IndexedDates(globalState')
                /\ dayKey \in DOMAIN globalState => globalState'[dayKey] = globalState[dayKey]
                /\ Len(new) >= Len(old)
                /\ SubSeq(new, 1, Len(old)) = old
                /\ \A i \in (Len(old) + 1)..Len(new) : new[i].analysisGenerated = FALSE
      ]_vars

\* C16: every calendar date for which a day record is stored, in either mode,
\* has an entry in the Day Index.
C16_DayRecordsIndexed ==
    \A d \in 0..MaxSteps, m \in Modes :
        getDayRecordKey(d, m) \in DOMAIN globalState => d \in IndexedDates(globalState)

AnalysisKeys == {getAnalysisKey(d) : d \in 0..MaxDays}

C18_MostRecentPastOnly ==
    [][ OpStep("checkAndGenerateMissingAnalysis") =>
            LET old == DayIndex(globalState)
                new == DayIndex(globalState')
                due == UnprocessedPast(globalState)
            IN  IF due = {}
                THEN writeLog' = <<>> /\ globalState' = globalState
                ELSE LET d == CHOOSE x \in due : \A y \in due : y <= x
                     IN  /\ writeLog' = <<getAnalysisKey(d), getTotalRecordKey>>
                         /\ getAnalysisKey(d) \in DOMAIN globalState'
                         /\ globalState'[getAnalysisKey(d)].date = d
                         /\ \A k \in AnalysisKeys \ {getAnalysisKey(d)} :
                               /\ k \in DOMAIN globalState' <=> k \in DOMAIN globalState
                               /\ k \in DOMAIN globalState =>
                                     globalState'[k] = globalState[k]
                         /\ Len(new) = Len(old)
                         /\ \A i \in 1..Len(new) :
                               IF old[i].date = d
                               THEN new[i] = [old[i] EXCEPT !.analysisGenerated = TRUE]
                               ELSE new[i] = old[i]
      ]_vars

\* two past days without a report and today in the index: the later past day
\* got its report, the earlier one did not
C18_Witness ==
    /\ lastCall.op = "checkAndGenerateMissingAnalysis"
    /\ getCurrentDate = 2
    /\ getAnalysisKey(1) \in DOMAIN globalState
    /\ getAnalysisKey(0) \notin DOMAIN globalState
    /\ \E i, j, k \in 1..Len(DayIndex(globalState)) :
          /\ DayIndex(globalState)[i] = [date |-> 0, analysisGenerated |-> FALSE]
          /\ DayIndex(globalState)[j] = [date |-> 1, analysisGenerated |-> TRUE]
          /\ DayIndex(globalState)[k] = [date |-> 2, analysisGenerated |-> FALSE]

\* every indexed date before today has its report
Backfilled == UnprocessedPast(globalState) = {}

C20_AnalysisFrame ==
    [][ (OpStep("generateAnalysis") \/ OpStep("checkAndGenerateMissingAnalysis")) =>
            /\ \A i \in 1..Len(writeLog') :
                  writeLog'[i] \in AnalysisKeys \cup {getTotalRecordKey}
            /\ DOMAIN globalState \subseteq DOMAIN globalState'
            /\ DOMAIN globalState' \ DOMAIN globalState \subseteq AnalysisKeys
            /\ \A k \in DOMAIN globalState \ (AnalysisKeys \cup {getTotalRecordKey}) :
                  globalState'[k] = globalState[k]
            /\ Len(DayIndex(globalState')) = Len(DayIndex(globalState))
            /\ \A i \in 1..Len(DayIndex(globalState)) :
                  DayIndex(globalState')[i].date = DayIndex(globalState)[i].date
      ]_vars

\* a report generated from a day record whose event has its statistics in a
\* stored chapter shard: shard and day record are in the store as they were
C20_Witness ==
    /\ lastCall.op \in {"generateAnalysis", "checkAndGenerateMissingAnalysis"}
    /\ Len(writeLog) = 2
    /\ Shards(globalState) # {}
    /\ \E k \in AnalysisKeys \cap DOMAIN globalState :
          /\ globalState[k].generatedAt = now
          /\ globalState[k].normalMode # Null
          /\ \E d \in DOMAIN globalState[k].normalMode.dicts :
                \E c \in DOMAIN globalState[k].normalMode.dicts[d].chapters :
                    LET chapter == globalState[k].normalMode.dicts[d].chapters[c]
                    IN  chapter.wordCount >= 1 /\ chapter.words[1].practiceCount >= 1

\* C21: no public operation of the record store, the day log or the
\* aggregator ends in an exception when the store fails: with a failing read
\* loadMainRecord returns the default record (chapter 1, index 0, loop on),
\* loadChapterRecord the default empty shard, getDayRecord null and
\* getTotalRecords the empty list, and with a failing write the operation
\* returns and the store is as it was.
C21_NeverThrows ==
    [][ nSteps' = nSteps + 1 /\ now' = now =>
            /\ lastCall'.op # "getTotalRecords" => lastRet' # Thrown
            /\ (fault = "read" /\ lastCall'.op = "loadMainRecord") =>
                   /\ lastRet'.currentChapter = 1
                   /\ lastRet'.currentWordIndex = 0
                   /\ lastRet'.chapterLoop = TRUE
            /\ (fault = "read" /\ lastCall'.op = "loadChapterRecord") =>
                   lastRet' = DefaultChapterRecord(lastCall'.chapterNumber)
            /\ (fault = "read" /\ lastCall'.op = "getDayRecord") => lastRet' = Null
            /\ (fault = "read" /\ lastCall'.op = "getTotalRecords") => lastRet' = <<>>
            /\ fault = "write" => globalState' = globalState
      ]_vars

\* C22: a call with a word that is not in the word book, with a chapter
\* number beyond the dictionary's chapters or with a word index beyond the
\* chapter does not raise and leaves no trace of the invalid value: no shard
\* of such a chapter is stored, no shard holds a record of such a word, no
\* day record holds an event of them, and the main record's position stays
\* inside the dictionary.
C22_InvalidInputHarmless ==
    /\ lastRet # Thrown
    /\ \A d \in Dicts, m \in Modes :
          /\ \A c \in AnyChapters \ Chapters :
                getChapterRecordKey(d, c, m) \notin DOMAIN globalState
          /\ \A c \in Chapters :
                getChapterRecordKey(d, c, m) \in DOMAIN globalState =>
                   DOMAIN globalState[getChapterRecordKey(d, c, m)].wordRecords
                       \subseteq WordBook(d)
          /\ getMainRecordKey(d, m) \in DOMAIN globalState =>
                /\ globalState[getMainRecordKey(d, m)].currentChapter \in Chapters
                /\ globalState[getMainRecordKey(d, m)].currentWordIndex
                       < TOTAL_WORDS_IN_CHAPTER
    /\ \A date \in 0..MaxDays, m \in Modes :
          getDayRecordKey(date, m) \in DOMAIN globalState =>
             LET words == globalState[getDayRecordKey(date, m)].words
             IN  \A i \in 1..Len(words) :
                    words[i].word \in WordBook(words[i].dictId)
                    /\ words[i].chapterNumber \in Chapters

DayEvents(gs, date, practiceMode) ==
    IF getDayRecordKey(date, practiceMode) \in DOMAIN gs
    THEN gs[getDayRecordKey(date, practiceMode)].words
    ELSE <<>>

\* the part of a report for a mode
ReportMode(report, practiceMode) ==
    IF practiceMode = "normal" THEN report.normalMode ELSE report.dictationMode

\* C25: in the report generateAnalysis stores, totalDicts is the number of
\* distinct dictionaries in the day's events of both modes, totalChapters is
\* the sum over the modes of the number of distinct (dictionary, chapter)
\* pairs with an event, totalWords is the number of events of the day, and
\* every chapter's wordCount is the number of the day's events for its mode,
\* dictionary and chapter.
C25_SummaryTotals ==
    [][ OpStep("generateAnalysis") =>
            LET date   == lastCall'.date
                report == globalState'[getAnalysisKey(date)]
                Ev(m)  == DayEvents(globalState, date, m)
                Idx(m) == 1..Len(Ev(m))
            IN  /\ report.summary.totalDicts =
                      Cardinality(UNION {{Ev(m)[i].dictId : i \in Idx(m)} : m \in Modes})
                /\ report.summary.totalChapters =
                      Cardinality({<<Ev("normal")[i].dictId, Ev("normal")[i].chapterNumber>> :
                                      i \in Idx("normal")})
                      + Cardinality({<<Ev("dictation")[i].dictId,
                                       Ev("dictation")[i].chapterNumber>> :
                                      i \in Idx("dictation")})
                /\ report.summary.totalWords = Len(Ev("normal")) + Len(Ev("dictation"))
                /\ \A m \in Modes : \A i \in Idx(m) :
                      LET e == Ev(m)[i]
                      IN  ReportMode(report, m).dicts[e.dictId]
                              .chapters[ToString(e.chapterNumber)].wordCount
                          = Cardinality({j \in Idx(m) :
                                            /\ Ev(m)[j].dictId = e.dictId
                                            /\ Ev(m)[j].chapterNumber = e.chapterNumber})
      ]_vars

\* a report of a day with events of two dictionaries, one of them in both
\* modes
C25_Witness ==
    /\ lastCall.op = "generateAnalysis"
    /\ getAnalysisKey(0) \in DOMAIN globalState
    /\ globalState[getAnalysisKey(0)].summary.totalDicts = 2
    /\ globalState[getAnalysisKey(0)].summary.totalWords = 2
    /\ globalState[getAnalysisKey(0)].summary.totalChapters = 2
    /\ Len(DayEvents(globalState, 0, "normal")) = 1
    /\ Len(DayEvents(globalState, 0, "dictation")) = 1

\* C26: every word entry of a generated report carries the practiceCount,
\* correctCount, errorCount and correctRate of the word's record in the
\* chapter shard of its dictionary, chapter and mode as stored when the
\* report is made, and 0 for all four when the shard has no record of the
\* word.
C26_WordStatisticsFromShard ==
    [][ OpStep("generateAnalysis") =>
            LET report == globalState'[getAnalysisKey(lastCall'.date)]
            IN  \A m \in Modes :
                  ReportMode(report, m) # Null =>
                    \A d \in DOMAIN ReportMode(report, m).dicts :
                      \A k \in DOMAIN ReportMode(report, m).dicts[d].chapters :
                        LET chapter == ReportMode(report, m).dicts[d].chapters[k]
                            key     == getChapterRecordKey(d, chapter.chapterNumber, m)
                        IN  \A i \in 1..Len(chapter.words) :
                              LET entry == chapter.words[i]
                              IN  IF key \in DOMAIN globalState
                                     /\ entry.word \in DOMAIN globalState[key].wordRecords
                                  THEN LET wr == globalState[key].wordRecords[entry.word]
                                       IN  /\ entry.practiceCount = wr.practiceCount
                                           /\ entry.correctCount = wr.correctCount
                                           /\ entry.errorCount = wr.errorCount
                                           /\ entry.correctRate = wr.correctRate
                                  ELSE /\ entry.practiceCount = 0
                                       /\ entry.correctCount = 0
                                       /\ entry.errorCount = 0
                                       /\ entry.correctRate = Zero
      ]_vars

\* a report whose day has one event of a word practised twice: the entry
\* counts two practices
C26_Witness ==
    /\ lastCall.op = "generateAnalysis"
    /\ getAnalysisKey(0) \in DOMAIN globalState
    /\ globalState[getAnalysisKey(0)].summary.totalWords = 1
    /\ \E m \in Modes :
          /\ ReportMode(globalState[getAnalysisKey(0)], m) # Null
          /\ \E d \in DOMAIN ReportMode(globalState[getAnalysisKey(0)], m).dicts :
                \E k \in DOMAIN ReportMode(globalState[getAnalysisKey(0)], m).dicts[d].chapters :
                   ReportMode(globalState[getAnalysisKey(0)], m).dicts[d].chapters[k]
                       .words[1].practiceCount = 2

\* a report with an entry of a word the shard has no record of
C26_WitnessAbsent ==
    /\ lastCall.op = "generateAnalysis"
    /\ getAnalysisKey(0) \in DOMAIN globalState
    /\ \E m \in Modes :
          /\ ReportMode(globalState[getAnalysisKey(0)], m) # Null
          /\ \E d \in DOMAIN ReportMode(globalState[getAnalysisKey(0)], m).dicts :
                \E k \in DOMAIN ReportMode(globalState[getAnalysisKey(0)], m).dicts[d].chapters :
                   LET chapter == ReportMode(globalState[getAnalysisKey(0)], m).dicts[d].chapters[k]
                   IN  /\ chapter.words[1].practiceCount = 0
                       /\ chapter.words[1].word = "B"

\* the keys whose value differs between two stores
ChangedKeys(before, after) ==
    {k \in DOMAIN before \cup DOMAIN after :
        ~(k \in DOMAIN before /\ k \in DOMAIN after /\ before[k] = after[k])}

\* the keys of the track a call is invoked for
TrackKeys(call) ==
    (IF "dictId" \in DOMAIN call
     THEN {getMainRecordKey(call.dictId, call.practiceMode)}
     ELSE {})
    \cup (IF "chapterNumber" \in DOMAIN call
          THEN {getChapterRecordKey(call.dictId, call.chapterNumber, call.practiceMode)}
          ELSE {})
    \cup {getDayRecordKey(getCurrentDate, call.practiceMode), getTotalRecordKey}

\* C27: an operation invoked for a dictionary, a mode and a chapter changes
\* no key of the store other than the Main Record of the dictionary and
\* mode, the shard of the dictionary, mode and chapter, today's day record of
\* the mode and the Day Index: the records of the other mode, of other
\* dictionaries, of other chapters and of other days keep their values.
C27_TracksIsolated ==
    [][ (\E name \in {"loadMainRecord", "loadChapterRecord", "updateCurrentPosition",
                      "updateChapterLoop", "recordWordPractice",
                      "recordChapterCompletion", "createDayRecordFile"} : OpStep(name))
            => ChangedKeys(globalState, globalState') \subseteq TrackKeys(lastCall')
      ]_vars

\* a practice of dictionary d1, chapter 1, mode normal has been recorded in
\* a store that holds a shard of another dictionary and a shard of the other
\* mode
C27_Witness ==
    /\ lastCall.op = "recordWordPractice"
    /\ lastCall.dictId = "d1" /\ lastCall.chapterNumber = 1
    /\ lastCall.practiceMode = "normal"
    /\ getChapterRecordKey("d2", 1, "normal") \in DOMAIN globalState
    /\ getChapterRecordKey("d1", 1, "dictation") \in DOMAIN globalState
    /\ getChapterRecordKey("d1", 1, "normal") \in DOMAIN globalState

\* C28: when two recordWordPractice calls that interleave at their awaits
\* have both completed, the practiceCount of the shard sums to 2 and today's
\* day record holds one event for each call that was given a dictName.
C28_NoPracticeLost ==
    (\A t \in PracticeTasks : Done(t)) =>
        LET key    == getChapterRecordKey("d1", 1, "normal")
            events == DayEvents(globalState, getCurrentDate, "normal")
            named  == {t \in PracticeTasks : tasks[t].dictName # ""}
        IN  /\ key \in DOMAIN globalState
            /\ SumPractice(globalState[key].wordRecords,
                           DOMAIN globalState[key].wordRecords) = 2
            /\ Len(events) = Cardinality(named)
            /\ \A t \in named : \E i \in 1..Len(events) :
                  /\ events[i].word = tasks[t].word
                  /\ events[i].isCorrect = tasks[t].isCorrect

\* the shard half of C28 alone
C28_ShardCountsBoth ==
    (\A t \in PracticeTasks : Done(t)) =>
        LET key == getChapterRecordKey("d1", 1, "normal")
        IN  /\ key \in DOMAIN globalState
            /\ SumPractice(globalState[key].wordRecords,
                           DOMAIN globalState[key].wordRecords) = 2

\* the day record half of C28 alone
C28_DayRecordHasBoth ==
    (\A t \in PracticeTasks : Done(t)) =>
        Len(DayEvents(globalState, getCurrentDate, "normal"))
            = Cardinality({t \in PracticeTasks : tasks[t].dictName # ""})

\* no date occurs twice in a list of the Day Index
NoDuplicateDates(totalRecords) ==
    \A i, j \in 1..Len(totalRecords) :
        totalRecords[i].date = totalRecords[j].date => i = j

\* C29: the Day Index, in globalState and in the totalRecords file, never
\* holds two entries of the same date, whatever the interleaving of the
\* createDayRecordFile calls that activation starts without awaiting and
\* however often activation runs in a day.
C29_NoDuplicateDates ==
    /\ getTotalRecordKey \in DOMAIN globalState
          => NoDuplicateDates(globalState[getTotalRecordKey])
    /\ getTotalRecordPath \in DOMAIN files
          => NoDuplicateDates(files[getTotalRecordPath])

\* the two createDayRecordFile calls of one activation over the files have
\* both written the list, each with today's date pushed on what it had read,
\* and the list holds today once
C29_Witness ==
    /\ DOMAIN tasks = Modes \cup {"check"}
    /\ \A t \in Modes : tasks[t].pc = "done" /\ tasks[t].wrote
    /\ tasks["normal"].date = tasks["dictation"].date
    /\ getTotalRecordPath \in DOMAIN files
    /\ Cardinality({i \in 1..Len(files[getTotalRecordPath]) :
                       files[getTotalRecordPath][i].date = tasks["normal"].date}) = 1

\* C30: when the createDayRecordFile calls and the
\* checkAndGenerateMissingAnalysis of one activation have all completed, and
\* the check had a past date d to process, the Day Index holds today's entry
\* and the entry of d has analysisGenerated = true.
C30_IndexUpdatesKept ==
    (/\ DOMAIN tasks = Modes \cup {"check"}
     /\ AllSettled
     /\ "target" \in DOMAIN tasks["check"])
        => /\ getTotalRecordPath \in DOMAIN files
           /\ \E i \in 1..Len(files[getTotalRecordPath]) :
                 files[getTotalRecordPath][i].date = tasks["check"].date
           /\ \E i \in 1..Len(files[getTotalRecordPath]) :
                 /\ files[getTotalRecordPath][i].date = tasks["check"].target
                 /\ files[getTotalRecordPath][i].analysisGenerated

\* the flag half of C30 alone: the entry of d is flagged
C30_FlagKept ==
    (/\ DOMAIN tasks = Modes \cup {"check"}
     /\ AllSettled
     /\ "target" \in DOMAIN tasks["check"])
        => \E i \in 1..Len(files[getTotalRecordPath]) :
              /\ files[getTotalRecordPath][i].date = tasks["check"].target
              /\ files[getTotalRecordPath][i].analysisGenerated

\* the other half of C30 alone: today's entry is in the list
C30_TodayKept ==
    (/\ DOMAIN tasks = Modes \cup {"check"}
     /\ AllSettled
     /\ "target" \in DOMAIN tasks["check"])
        => \E i \in 1..Len(files[getTotalRecordPath]) :
              files[getTotalRecordPath][i].date = tasks["check"].date

\* C24: in every reachable state, the states in the middle of
\* generateAnalysis and those after a rejected update included, a Day Index
\* entry with analysisGenerated = true has its AnalysisReport in the store.
C24_FlagImpliesReport ==
    LET totalRecords == IF getTotalRecordKey \in DOMAIN globalState
                        THEN globalState[getTotalRecordKey] ELSE <<>>
    IN  \A i \in 1..Len(totalRecords) :
           totalRecords[i].analysisGenerated
           => getAnalysisKey(totalRecords[i].date) \in DOMAIN globalState

\* C24, in the states where every call has returned and resetAllData, when it
\* ran, made all its updates: an entry with analysisGenerated = true has its
\* report in the store
C24_SettledFlagImpliesReport ==
    (/\ AllSettled
     /\ "reset" \in DOMAIN tasks => tasks["reset"].keys = {})
    => C24_FlagImpliesReport

\* C24, its second half: the flag turns true only in a step of
\* generateAnalysis
C24_OnlyGenerateAnalysisSetsFlag ==
    [][LET Flagged(gs) ==
               IF getTotalRecordKey \in DOMAIN gs
               THEN {gs[getTotalRecordKey][i].date :
                        i \in {j \in 1..Len(gs[getTotalRecordKey]) :
                                  gs[getTotalRecordKey][j].analysisGenerated}}
               ELSE {}
       IN  Flagged(globalState') \subseteq Flagged(globalState)
           \/ /\ "analysis" \in DOMAIN tasks
              /\ tasks["analysis"].pc = "flag"
              /\ tasks'["analysis"].pc = "done"]_vars

====
